---- MODULE Spec2Model ----
(***************************************************************************)
(* LRCP (line reversal control protocol) of eenblam/protohackers, problem  *)
(* 7: the Listener that demultiplexes datagrams to Sessions, and a         *)
(* Session's read worker, write worker and Read/Write/Close surface.       *)
(* The peers of the server are the environment: they write a byte stream,  *)
(* frame slices of it with pack, and send any frame at any time, which     *)
(* covers loss, duplication and reordering of datagrams.                   *)
(***************************************************************************)
EXTENDS Integers, Sequences, FiniteSets, TLC

(***************************************************************************)
(* Bounds of the model.                                                    *)
(***************************************************************************)
\* Session objects ever constructed by the listener (one per Connect frame).
MaxObjs == 2
\* Bytes a peer application writes on its side of one session.
MaxPeerLen == 3
\* Bytes the server application writes to one session.
MaxWriteLen == 2
\* Largest LENGTH a peer puts in an ack frame.
MaxAckLen == 3
\* Largest len(b) the application passes to Session.Read.
MaxReadBuf == 2

(***************************************************************************)
(* Program constants.                                                      *)
(***************************************************************************)
maxInt == 2147483647
maxMessageSize == 999
\* cap(acceptCh) in Listen
acceptChCap == 1
\* acceptBufferSize of the revision of Listen that sizes acceptCh for "at
\* least 20 simultaneous sessions".
acceptBufferSize == 20
\* cap(receiveCh) and cap(readCh) in NewSession
receiveChCap == 1
readChCap == 1

Addrs == {"p1"}
IDs == {7}
\* A session ID that collides with p1's, from a second peer address.
Addrs2 == {"p1", "p2"}

\* A key that leaves the address out.
keyOfID(addr, id) == <<"p1", id>>

\* The key of the session store: fmt.Sprintf("%s-%d", addr, id), as a pair.
keyOf(addr, id) == <<addr, id>>

\* The peers, each an address with the session id it uses.
Keys == Addrs \X IDs
Keys2 == Addrs2 \X IDs
Objs == 1..MaxObjs

Min(a, b) == IF a < b THEN a ELSE b
Max(a, b) == IF a > b THEN a ELSE b

IsPrefix(s, t) == Len(s) <= Len(t) /\ s = SubSeq(t, 1, Len(s))

\* The bytes of the model: an ordinary byte, a second one, and the two
\* bytes the wire format escapes.
SLASH == "/"
BACKSLASH == "\\"
IsSlash(c) == c = SLASH \/ c = BACKSLASH

\* The i-th byte (from 1) a peer application writes, and the i-th byte the
\* server application writes: every run of four positions differs.
PeerByte(i) == CASE i % 4 = 1 -> "a" [] i % 4 = 2 -> SLASH
                 [] i % 4 = 3 -> BACKSLASH [] OTHER -> "b"
AppByte(i) == CASE i % 4 = 1 -> SLASH [] i % 4 = 2 -> "x"
                 [] i % 4 = 3 -> "y" [] OTHER -> BACKSLASH
\* The bytes [from, to) of a peer's stream (offsets from 0).
PeerSlice(from, to) == [i \in 1..(to - from) |-> PeerByte(from + i)]

(***************************************************************************)
(* message.go: the codec.                                                  *)
(***************************************************************************)
RECURSIVE DigitLen(_)
\* len(fmt.Sprintf("%d", n)) for n >= 0
DigitLen(n) == IF n < 10 THEN 1 ELSE 1 + DigitLen(n \div 10)

\* The count of '/' and '\' in data (the first loop of Msg.pack).
CountSlashes(data) == Cardinality({i \in 1..Len(data) : IsSlash(data[i])})

\* An iteration that writes the escape without looking whether it fits.
packStepNoFit(data, copySize, st) ==
    IF st.brk \/ ~(Len(st.Data) < copySize /\ st.j < Len(data)) THEN st
    ELSE LET c == data[st.j + 1]
         IN IF IsSlash(c)
            THEN [st EXCEPT !.Data = @ \o <<BACKSLASH, c>>, !.j = @ + 1]
            ELSE [st EXCEPT !.Data = Append(@, c), !.j = @ + 1]

\* One iteration of the copy loop of Msg.pack, or none when the loop is
\* over.  st.Data is m.Data[:i], st.j the count of source bytes copied,
\* st.brk whether the loop has broken off and trimmed m.Data.
packStep(data, copySize, st) ==
    IF st.brk \/ ~(Len(st.Data) < copySize /\ st.j < Len(data)) THEN st
    ELSE LET c == data[st.j + 1]
         IN IF IsSlash(c)
            THEN IF Len(st.Data) + 1 >= copySize
                 THEN [st EXCEPT !.brk = TRUE]
                 ELSE [st EXCEPT !.Data = @ \o <<BACKSLASH, c>>, !.j = @ + 1]
            ELSE [st EXCEPT !.Data = Append(@, c), !.j = @ + 1]

RECURSIVE packLoop(_, _, _, _)
\* k iterations of the copy loop from st, in order: the first half of them,
\* then, unless the loop has broken off, the rest.
packLoop(data, copySize, st, k) ==
    IF k = 0 THEN st
    ELSE IF k = 1 THEN packStep(data, copySize, st)
    ELSE LET half == packLoop(data, copySize, st, k \div 2)
         IN IF half.brk THEN half
            ELSE packLoop(data, copySize, half, k - k \div 2)

\* Msg.pack with m.Session = session and m.Pos = pos: the loop ends within
\* len(data) iterations.
pack(session, pos, data) ==
    LET maxCopy == maxMessageSize - (9 + DigitLen(session) + DigitLen(pos))
        copySize == Min(maxCopy, Len(data) + CountSlashes(data))
        r == packLoop(data, copySize, [Data |-> <<>>, j |-> 0, brk |-> FALSE],
                      Len(data))
    IN [n |-> r.j, Data |-> r.Data]

\* Msg.Validate; totalData := m.Pos + len(m.Data) > maxInt is computed in
\* 64 bits, and here without the sum.
Validate(m) ==
    /\ m.Session <= maxInt
    /\ m.Type = "data" => (m.Pos <= maxInt /\ Len(m.Data) <= maxInt - m.Pos)
    /\ m.Type = "ack" => m.Length <= maxInt

\* len of what Msg.encode writes for a data message
EncodedLen(m) ==
    CASE m.Type = "data" ->
           9 + DigitLen(m.Session) + DigitLen(m.Pos) + Len(m.Data)
      [] m.Type = "ack" -> 7 + DigitLen(m.Session) + DigitLen(m.Length)
      [] m.Type = "connect" -> 10 + DigitLen(m.Session)
      [] OTHER -> 8 + DigitLen(m.Session)

\* An iteration that lets a '\' escape any byte.
parseFieldStepLax(bs, st, i) ==
    IF st.res # "run" THEN st
    ELSE IF st.escape THEN [st EXCEPT !.escape = FALSE]
         ELSE IF bs[i] = BACKSLASH THEN [st EXCEPT !.escape = TRUE]
         ELSE IF bs[i] = SLASH THEN [st EXCEPT !.res = "found", !.at = i]
         ELSE st

\* One iteration of parseField's loop, at index i (from 1), or none when the
\* loop has returned.  st.escape is its escape flag, st.res whether it is
\* still running, has found the unescaped '/' (at st.at) or has failed.
parseFieldStep(bs, st, i) ==
    IF st.res # "run" THEN st
    ELSE IF st.escape
         THEN IF IsSlash(bs[i]) THEN [st EXCEPT !.escape = FALSE]
              ELSE [st EXCEPT !.res = "error"]
         ELSE IF bs[i] = BACKSLASH THEN [st EXCEPT !.escape = TRUE]
         ELSE IF bs[i] = SLASH THEN [st EXCEPT !.res = "found", !.at = i]
         ELSE st

RECURSIVE parseFieldFrom(_, _, _, _)
\* parseField's loop over the indexes lo..hi from st, in order: the first
\* half of them, then, unless the loop has returned, the rest.
parseFieldFrom(bs, st, lo, hi) ==
    IF lo > hi THEN st
    ELSE IF lo = hi THEN parseFieldStep(bs, st, lo)
    ELSE LET mid == (lo + hi) \div 2
             half == parseFieldFrom(bs, st, lo, mid)
         IN IF half.res # "run" THEN half
            ELSE parseFieldFrom(bs, half, mid + 1, hi)

\* parseField: the bytes before the first unescaped '/' and those after it;
\* an error when there is none or a '\' is followed by an ordinary byte.
parseField(bs) ==
    LET r == parseFieldFrom(bs, [escape |-> FALSE, res |-> "run", at |-> 0],
                            1, Len(bs))
    IN IF r.res = "found"
       THEN [ok |-> TRUE, field |-> SubSeq(bs, 1, r.at - 1),
             rest |-> SubSeq(bs, r.at + 1, Len(bs))]
       ELSE [ok |-> FALSE, field |-> <<>>, rest |-> <<>>]

\* An iteration that leaves the escape flag set after an escaped byte.
parseDataStepNoReset(bs, st, i) ==
    IF st.err THEN st
    ELSE IF IsSlash(bs[i]) /\ st.escape
         THEN [st EXCEPT !.out = Append(@, bs[i])]
         ELSE IF bs[i] = BACKSLASH THEN [st EXCEPT !.escape = TRUE]
         ELSE IF bs[i] = SLASH THEN [st EXCEPT !.err = TRUE]
         ELSE IF st.escape THEN [st EXCEPT !.err = TRUE]
         ELSE [st EXCEPT !.out = Append(@, bs[i])]

\* One iteration of parseData's loop after ESCAPED, at index i (from 1), or
\* none when the loop has returned an error.  st.escape is its escape flag,
\* st.out the bytes appended, st.err whether it has failed.
parseDataStep(bs, st, i) ==
    IF st.err THEN st
    ELSE IF IsSlash(bs[i]) /\ st.escape
         THEN [st EXCEPT !.escape = FALSE, !.out = Append(@, bs[i])]
         ELSE IF bs[i] = BACKSLASH THEN [st EXCEPT !.escape = TRUE]
         ELSE IF bs[i] = SLASH THEN [st EXCEPT !.err = TRUE]
         ELSE IF st.escape THEN [st EXCEPT !.err = TRUE]
         ELSE [st EXCEPT !.out = Append(@, bs[i])]

RECURSIVE parseDataFrom(_, _, _, _)
\* parseData's loop over the indexes lo..hi from st, in order: the first
\* half of them, then, unless the loop has failed, the rest.
parseDataFrom(bs, st, lo, hi) ==
    IF lo > hi THEN st
    ELSE IF lo = hi THEN parseDataStep(bs, st, lo)
    ELSE LET mid == (lo + hi) \div 2
             half == parseDataFrom(bs, st, lo, mid)
         IN IF half.err THEN half
            ELSE parseDataFrom(bs, half, mid + 1, hi)

\* parseData: a copy when bs holds no '/' and no '\', otherwise the loop,
\* which must not end on an open escape.
parseData(bs) ==
    IF \A i \in 1..Len(bs) : ~IsSlash(bs[i])
    THEN [ok |-> TRUE, data |-> bs]
    ELSE LET r == parseDataFrom(bs, [escape |-> FALSE, out |-> <<>>,
                                     err |-> FALSE], 1, Len(bs))
         IN IF r.err \/ r.escape THEN [ok |-> FALSE, data |-> <<>>]
            ELSE [ok |-> TRUE, data |-> r.out]

\* A message, parsed or to be encoded. Data holds the unescaped bytes after
\* parsing and the escaped bytes after pack.
Msg(type, session, pos, data, length) ==
    [Type |-> type, Session |-> session, Pos |-> pos, Data |-> data,
     Length |-> length]
NoMsg == Msg("", 0, 0, <<>>, 0)

\* A datagram as a peer sends it: the numeric fields, and for data the bytes
\* between the third '/' and the end of the datagram (the escaped data and
\* the final '/').
Dgram(type, session, pos, tail, length) ==
    [Type |-> type, Session |-> session, Pos |-> pos, Tail |-> tail,
     Length |-> length]

\* parseMessage without its check that nothing follows the data field.
parseMessageNoRest(d) ==
    IF d.Session > maxInt THEN [ok |-> FALSE, msg |-> NoMsg]
    ELSE CASE d.Type = "data" ->
                LET f == parseField(d.Tail)
                    pd == parseData(f.field)
                IN IF d.Pos > maxInt \/ ~f.ok \/ ~pd.ok
                   THEN [ok |-> FALSE, msg |-> NoMsg]
                   ELSE [ok |-> TRUE,
                         msg |-> Msg("data", d.Session, d.Pos, pd.data, 0)]
           [] d.Type = "ack" ->
                IF d.Length > maxInt THEN [ok |-> FALSE, msg |-> NoMsg]
                ELSE [ok |-> TRUE,
                      msg |-> Msg("ack", d.Session, 0, <<>>, d.Length)]
           [] d.Type \in {"connect", "close"} ->
                [ok |-> TRUE, msg |-> Msg(d.Type, d.Session, 0, <<>>, 0)]
           [] OTHER -> [ok |-> FALSE, msg |-> NoMsg]

\* parseMessage on a well-formed header: the numeric fields must be at most
\* maxInt, and the data field is split by parseField and unescaped by
\* parseData, with nothing left after it.
parseMessage(d) ==
    IF d.Session > maxInt THEN [ok |-> FALSE, msg |-> NoMsg]
    ELSE CASE d.Type = "data" ->
                LET f == parseField(d.Tail)
                    pd == parseData(f.field)
                IN IF d.Pos > maxInt \/ ~f.ok \/ f.rest # <<>> \/ ~pd.ok
                   THEN [ok |-> FALSE, msg |-> NoMsg]
                   ELSE [ok |-> TRUE,
                         msg |-> Msg("data", d.Session, d.Pos, pd.data, 0)]
           [] d.Type = "ack" ->
                IF d.Length > maxInt THEN [ok |-> FALSE, msg |-> NoMsg]
                ELSE [ok |-> TRUE,
                      msg |-> Msg("ack", d.Session, 0, <<>>, d.Length)]
           [] d.Type \in {"connect", "close"} ->
                [ok |-> TRUE, msg |-> Msg(d.Type, d.Session, 0, <<>>, 0)]
           [] OTHER -> [ok |-> FALSE, msg |-> NoMsg]

\* The decimal digits as bytes, and the bytes of the four type names.
DigitChars == <<"0", "1", "2", "3", "4", "5", "6", "7", "8", "9">>
IsDigit(c) == \E d \in 1..10 : DigitChars[d] = c
DigitValue(c) == (CHOOSE d \in 1..10 : DigitChars[d] = c) - 1
TypeBytes(t) ==
    CASE t = "connect" -> <<"c", "o", "n", "n", "e", "c", "t">>
      [] t = "data" -> <<"d", "a", "t", "a">>
      [] t = "ack" -> <<"a", "c", "k">>
      [] t = "close" -> <<"c", "l", "o", "s", "e">>
Types == {"connect", "data", "ack", "close"}

RECURSIVE Itoa(_)
\* fmt.Sprintf("%d", n)
Itoa(n) ==
    IF n < 0 THEN <<"-">> \o Itoa(-n)
    ELSE IF n < 10 THEN <<DigitChars[n + 1]>>
    ELSE Append(Itoa(n \div 10), DigitChars[(n % 10) + 1])

\* An encode that writes Pos where the length of an ack belongs.
encodeAckPos(m) ==
    LET head == <<SLASH>> \o TypeBytes(m.Type) \o <<SLASH>>
                    \o Itoa(m.Session) \o <<SLASH>>
        data == CASE m.Type = "data" ->
                       head \o Itoa(m.Pos) \o <<SLASH>> \o m.Data \o <<SLASH>>
                  [] m.Type = "ack" -> head \o Itoa(m.Pos) \o <<SLASH>>
                  [] OTHER -> head
    IN IF m.Type \notin Types THEN [err |-> TRUE, bs |-> <<>>]
       ELSE [err |-> FALSE,
             bs |-> SubSeq(data, 1, Min(Len(data), maxMessageSize))]

\* Msg.encode into a buffer of maxMessageSize bytes: the bytes written.
\* m.Data is written as it is.
encode(m) ==
    LET head == <<SLASH>> \o TypeBytes(m.Type) \o <<SLASH>>
                    \o Itoa(m.Session) \o <<SLASH>>
        data == CASE m.Type = "data" ->
                       head \o Itoa(m.Pos) \o <<SLASH>> \o m.Data \o <<SLASH>>
                  [] m.Type = "ack" -> head \o Itoa(m.Length) \o <<SLASH>>
                  [] OTHER -> head
    IN IF m.Type \notin Types THEN [err |-> TRUE, bs |-> <<>>]
       ELSE [err |-> FALSE,
             bs |-> SubSeq(data, 1, Min(Len(data), maxMessageSize))]

RECURSIVE atoiFrom(_, _, _)
\* strconv.Atoi's loop over the digits ds from index i: the value so far, or
\* big once it has passed maxInt.
atoiFrom(ds, i, acc) ==
    IF i > Len(ds) THEN acc
    ELSE LET d == DigitValue(ds[i])
         IN IF acc.big \/ acc.val > (maxInt - d) \div 10
            THEN atoiFrom(ds, i + 1, [big |-> TRUE, val |-> 0])
            ELSE atoiFrom(ds, i + 1, [big |-> FALSE, val |-> acc.val * 10 + d])

\* parseInt: strconv.Atoi, which takes one leading '+' or '-' and then wants
\* at least one byte, all of them digits, and then the check i > maxInt.
\* The int has 64 bits, and fields have fewer than 19 bytes, so that Atoi
\* itself finds no value out of range; a negative value below -2^31 is given
\* as -2^31.
parseInt(bs) ==
    LET signed == bs # <<>> /\ bs[1] \in {"+", "-"}
        ds == IF signed THEN Tail(bs) ELSE bs
        neg == signed /\ bs[1] = "-"
    IN IF ds = <<>> \/ \E i \in 1..Len(ds) : ~IsDigit(ds[i])
       THEN [err |-> TRUE, val |-> 0]
       ELSE LET v == atoiFrom(ds, 1, [big |-> FALSE, val |-> 0])
            IN IF neg
               THEN [err |-> FALSE,
                     val |-> IF v.big THEN -maxInt - 1 ELSE -v.val]
               ELSE IF v.big THEN [err |-> TRUE, val |-> 0]
               ELSE [err |-> FALSE, val |-> v.val]

\* parseMessage on the bytes of a datagram: the leading '/', the type, the
\* session and, by type, pos or length, each split off by parseField and
\* read by parseInt, with nothing after the last field; the data field goes
\* through parseMessage on the datagram's fields.
parseMessageBytes(bs) ==
    LET fail == [ok |-> FALSE, msg |-> NoMsg]
    IN IF bs = <<>> \/ bs[1] # SLASH THEN fail
       ELSE LET t == parseField(Tail(bs))
            IN IF ~t.ok \/ \A ty \in Types : t.field # TypeBytes(ty) THEN fail
               ELSE LET type == CHOOSE ty \in Types : t.field = TypeBytes(ty)
                        sf == parseField(t.rest)
                        s == parseInt(sf.field)
                        nf == parseField(sf.rest)
                        n == parseInt(nf.field)
                    IN IF ~sf.ok \/ s.err THEN fail
                       ELSE CASE type \in {"connect", "close"} ->
                                   IF sf.rest # <<>> THEN fail
                                   ELSE [ok |-> TRUE,
                                         msg |-> Msg(type, s.val, 0, <<>>, 0)]
                              [] type = "data" ->
                                   IF ~nf.ok \/ n.err THEN fail
                                   ELSE parseMessage(Dgram("data", s.val,
                                                     n.val, nf.rest, 0))
                              [] type = "ack" ->
                                   IF ~nf.ok \/ nf.rest # <<>> \/ n.err
                                   THEN fail
                                   ELSE [ok |-> TRUE,
                                         msg |-> Msg("ack", s.val, 0, <<>>,
                                                     n.val)]

(***************************************************************************)
(* State.  A session object o \in Objs is one *Session value; objects are  *)
(* numbered in the order the listener constructs them.                     *)
(***************************************************************************)
VARIABLES
    sessionStore,  \* Listener.sessionStore: session key -> session object
    acceptCh,      \* Listener.acceptCh
    made,          \* number of session objects constructed so far
    Addr,          \* Session.Addr
    ID,            \* Session.ID
    ctx,           \* Session.ctx: "none" (not constructed), "live", "done"
    receiveCh,     \* Session.receiveCh
    readCh,        \* Session.readCh: number of queued wake-ups
    readBuffer,    \* Session.readBuffer, without its first readBase bytes
    readBase,      \* bytes of Session.readBuffer before the ones kept here
    readIndex,     \* Session.readIndex
    lastAck,       \* Session.lastAck
    maxAckable,    \* Session.maxAckable
    writeBuffer,   \* Session.writeBuffer
    writeIndex,    \* writeIndex of Session.writeWorker
    rpc,           \* where Session.readWorker stands
    timeoutTimer,  \* timeoutTimer of Session.readWorker has fired
    rmsg,          \* msg of Session.readWorker while it handles it
    rn,            \* n returned by appendRead, until sendAck(n)
    rerr,          \* err returned by appendRead
    wpc,           \* where Session.writeWorker stands
    packedN,       \* packedN of tryWrite
    accepted,      \* the application got the session from Accept
    delivered,     \* the bytes Session.Read has returned so far
    eof,           \* Session.Read: its last return was io.EOF
    peerLen,       \* bytes the peer application has written, per key
    peerBase,      \* bytes of them written before the first state
    lerr,          \* Listener.listen: parsing its last datagram failed
    call,          \* the function the last call step called, its arguments
    ret,           \* what that call returned
    clientStore,   \* ClientCoordinator.sessionStore: the ids stored
    out            \* the datagrams the last step sent, in order

vars == <<sessionStore, acceptCh, made, Addr, ID, ctx, receiveCh, readCh,
          readBuffer, readIndex, lastAck, maxAckable, writeBuffer,
          writeIndex, rpc, rmsg, rn, rerr, wpc, packedN, accepted,
          delivered, peerLen, out, readBase, peerBase, timeoutTimer, lerr,
          eof, call, ret, clientStore>>

listenerVars == <<sessionStore, acceptCh, made, Addr, ID, lerr>>
readVars == <<readBuffer, readBase, readIndex, readCh, delivered, eof>>
peerVars == <<peerLen, peerBase>>
\* A call of a function by itself: the function with its arguments, and
\* what it returned.
callVars == <<call, ret>>
NoCall == [fn |-> ""]
NoRet == [err |-> FALSE]

\* len(s.readBuffer)
RecvLen(o) == readBase[o] + Len(readBuffer[o])
ackVars == <<lastAck, maxAckable>>
writeVars == <<writeBuffer, writeIndex, wpc, packedN>>
rwVars == <<rpc, rmsg, rn, rerr, timeoutTimer>>

\* Session.Key
Key(o) == keyOf(Addr[o], ID[o])

\* A datagram sent to addr.
Sent(addr, m) == [to |-> addr, msg |-> m]
\* Session.sendAck(length)
sendAck(o, length) == Sent(Addr[o], Msg("ack", ID[o], 0, <<>>, length))
\* sendClose(sessionID, addr, conn)
sendClose(sessionID, addr) == Sent(addr, Msg("close", sessionID, 0, <<>>, 0))

\* Listen: the server before its first datagram.
InitServer ==
    /\ sessionStore = <<>>
    /\ acceptCh = <<>>
    /\ lerr = FALSE
    /\ made = 0
    /\ Addr = [o \in Objs |-> ""]
    /\ ID = [o \in Objs |-> 0]
    /\ ctx = [o \in Objs |-> "none"]
    /\ receiveCh = [o \in Objs |-> <<>>]
    /\ readCh = [o \in Objs |-> 0]
    /\ readBuffer = [o \in Objs |-> <<>>]
    /\ readIndex = [o \in Objs |-> 0]
    /\ lastAck = [o \in Objs |-> 0]
    /\ maxAckable = [o \in Objs |-> 0]
    /\ writeBuffer = [o \in Objs |-> <<>>]
    /\ writeIndex = [o \in Objs |-> 0]
    /\ rpc = [o \in Objs |-> "none"]
    /\ timeoutTimer = [o \in Objs |-> FALSE]
    /\ rmsg = [o \in Objs |-> NoMsg]
    /\ rn = [o \in Objs |-> 0]
    /\ rerr = [o \in Objs |-> FALSE]
    /\ wpc = [o \in Objs |-> "none"]
    /\ packedN = [o \in Objs |-> 0]
    /\ accepted = [o \in Objs |-> FALSE]
    /\ delivered = [o \in Objs |-> <<>>]
    /\ eof = [o \in Objs |-> FALSE]
    /\ call = NoCall
    /\ ret = NoRet
    /\ clientStore = {}
    /\ readBase = [o \in Objs |-> 0]
    /\ out = <<>>

Init ==
    /\ InitServer
    /\ peerLen = [k \in Keys |-> 0]
    /\ peerBase = [k \in Keys |-> 0]

(***************************************************************************)
(* session.go: construction, Close, and the session store.                 *)
(***************************************************************************)
\* A LoadOrStore that never finds the key.
LoadedNever(store, k) == FALSE

\* sync.Map as a function whose domain is the set of stored keys.
Loaded(store, k) == k \in DOMAIN store
Store(store, k, o) ==
    [x \in DOMAIN store \cup {k} |-> IF x = k THEN o ELSE store[x]]
\* A Delete that leaves the entry.
DeleteNothing(store, k) == store

Delete(store, k) == [x \in DOMAIN store \ {k} |-> store[x]]

\* NewSession(addr, id, ...): the fields of a fresh session o, with both
\* workers started.  closed: the caller closes it in the same step.
NewSession(o, addr, id, closed) ==
    /\ Addr' = [Addr EXCEPT ![o] = addr]
    /\ ID' = [ID EXCEPT ![o] = id]
    /\ ctx' = [ctx EXCEPT ![o] = IF closed THEN "done" ELSE "live"]
    /\ rpc' = [rpc EXCEPT ![o] = "select"]
    /\ wpc' = [wpc EXCEPT ![o] = "select"]
    /\ made' = o

\* Session.Close: cancel the context.
Close(o) == ctx' = [ctx EXCEPT ![o] = "done"]

(***************************************************************************)
(* listener.go: Listener.listen, one iteration of its loop for a datagram  *)
(* d read from addr.                                                       *)
(***************************************************************************)
\* The connect branch without the continue after a failed hand-over: the
\* ack is sent all the same.
listenConnectAckFull(addr, m) ==
    LET k == keyOf(addr, m.Session)
        newSession == made + 1
    IN /\ made < MaxObjs
       /\ lerr' = FALSE
       /\ IF Loaded(sessionStore, k)
          THEN \* existing session: close the new one, ack from the old
               /\ NewSession(newSession, addr, m.Session, TRUE)
               /\ out' = <<sendAck(sessionStore[k], 0)>>
               /\ UNCHANGED <<sessionStore, acceptCh>>
          ELSE IF Len(acceptCh) < acceptChCap
               THEN /\ NewSession(newSession, addr, m.Session, FALSE)
                    /\ sessionStore' = Store(sessionStore, k, newSession)
                    /\ acceptCh' = Append(acceptCh, newSession)
                    /\ out' = <<Sent(addr, Msg("ack", m.Session, 0, <<>>, 0))>>
               ELSE \* accept channel full: close, delete, ack
                    /\ NewSession(newSession, addr, m.Session, TRUE)
                    /\ sessionStore' = Delete(Store(sessionStore, k, newSession), k)
                    /\ out' = <<Sent(addr, Msg("ack", m.Session, 0, <<>>, 0))>>
                    /\ UNCHANGED acceptCh
       /\ UNCHANGED <<receiveCh, readVars, ackVars, writeBuffer, writeIndex,
                      packedN, rmsg, rn, rerr, timeoutTimer, accepted, peerVars, callVars, clientStore>>

\* The connect branch: construct, LoadOrStore, hand to Accept, ack.
listenConnect(addr, m) ==
    LET k == keyOf(addr, m.Session)
        newSession == made + 1
    IN /\ made < MaxObjs
       /\ lerr' = FALSE
       /\ IF Loaded(sessionStore, k)
          THEN \* existing session: close the new one, ack from the old
               /\ NewSession(newSession, addr, m.Session, TRUE)
               /\ out' = <<sendAck(sessionStore[k], 0)>>
               /\ UNCHANGED <<sessionStore, acceptCh>>
          ELSE IF Len(acceptCh) < acceptChCap
               THEN /\ NewSession(newSession, addr, m.Session, FALSE)
                    /\ sessionStore' = Store(sessionStore, k, newSession)
                    /\ acceptCh' = Append(acceptCh, newSession)
                    /\ out' = <<Sent(addr, Msg("ack", m.Session, 0, <<>>, 0))>>
               ELSE \* accept channel full: close, delete, no ack
                    /\ NewSession(newSession, addr, m.Session, TRUE)
                    /\ sessionStore' = Delete(Store(sessionStore, k, newSession), k)
                    /\ out' = <<>>
                    /\ UNCHANGED acceptCh
       /\ UNCHANGED <<receiveCh, readVars, ackVars, writeBuffer, writeIndex,
                      packedN, rmsg, rn, rerr, timeoutTimer, accepted, peerVars, callVars, clientStore>>

\* Not a connect, and no session under the key: no reply.
listenUnknownSilent(addr, m) ==
    /\ out' = <<>>
    /\ lerr' = FALSE
    /\ UNCHANGED <<sessionStore, acceptCh, made, Addr, ID, ctx, receiveCh,
                   readVars, ackVars, writeVars, rwVars, accepted, peerVars, callVars, clientStore>>

\* Not a connect, and no session under the key: reply close.
listenUnknown(addr, m) ==
    /\ out' = <<sendClose(m.Session, addr)>>
    /\ lerr' = FALSE
    /\ UNCHANGED <<sessionStore, acceptCh, made, Addr, ID, ctx, receiveCh,
                   readVars, ackVars, writeVars, rwVars, accepted, peerVars, callVars, clientStore>>

\* case `close` without the Delete.
listenCloseKeep(addr, m, session) ==
    /\ Close(session)
    /\ out' = <<sendClose(m.Session, addr)>>
    /\ lerr' = FALSE
    /\ UNCHANGED <<sessionStore, acceptCh, made, Addr, ID, receiveCh, readVars,
                   ackVars, writeVars, rwVars, accepted, peerVars, callVars, clientStore>>

\* case `close`
listenClose(addr, m, session) ==
    /\ Close(session)
    /\ out' = <<sendClose(m.Session, addr)>>
    /\ sessionStore' = Delete(sessionStore, Key(session))
    /\ lerr' = FALSE
    /\ UNCHANGED <<acceptCh, made, Addr, ID, receiveCh, readVars, ackVars,
                   writeVars, rwVars, accepted, peerVars, callVars, clientStore>>

\* case `ack`, `data`: non-blocking send on session.receiveCh
listenForward(m, session) ==
    /\ receiveCh' = IF Len(receiveCh[session]) < receiveChCap
                    THEN [receiveCh EXCEPT ![session] = Append(@, m)]
                    ELSE receiveCh
    /\ out' = <<>>
    /\ lerr' = FALSE
    /\ UNCHANGED <<sessionStore, acceptCh, made, Addr, ID, ctx, readVars,
                   ackVars, writeVars, rwVars, accepted, peerVars, callVars, clientStore>>

\* An iteration of Listener.listen after parseMessageInto has returned p.
listenParsed(addr, p) ==
    IF ~p.ok
    THEN \* just drop invalid messages
         /\ out' = <<>>
         /\ lerr' = TRUE
         /\ UNCHANGED <<sessionStore, acceptCh, made, Addr, ID, ctx,
                        receiveCh, readVars, ackVars, writeVars, rwVars,
                        accepted, peerVars, callVars, clientStore>>
    ELSE LET k == keyOf(addr, p.msg.Session)
         IN IF p.msg.Type = "connect" THEN listenConnect(addr, p.msg)
            ELSE IF ~Loaded(sessionStore, k) THEN listenUnknown(addr, p.msg)
            ELSE IF p.msg.Type = "close"
                 THEN listenClose(addr, p.msg, sessionStore[k])
                 ELSE listenForward(p.msg, sessionStore[k])

\* An iteration of Listener.listen on a datagram with a well-formed header.
listen(addr, d) ==
    /\ listenParsed(addr, parseMessage(d))

\* l.conn.ReadFrom(buf) with buf of maxMessageSize bytes on a datagram of
\* the bytes bs: buf[:n], the bytes that fit.  The rest of the datagram is
\* discarded and no error is returned (recvfrom on Unix).
ReadFrom(bs) == SubSeq(bs, 1, Min(Len(bs), maxMessageSize))

\* An iteration of Listener.listen on the bytes of a datagram.
listenBytes(addr, bs) ==
    /\ listenParsed(addr, parseMessageBytes(ReadFrom(bs)))

\* Listener.Accept
Accept ==
    /\ acceptCh # <<>>
    /\ accepted' = [accepted EXCEPT ![Head(acceptCh)] = TRUE]
    /\ acceptCh' = Tail(acceptCh)
    /\ out' = <<>>
    /\ UNCHANGED <<sessionStore, made, Addr, ID, lerr, ctx, receiveCh,
                   readVars, ackVars, writeVars, rwVars, peerVars, callVars, clientStore>>

\* Listener.reapSessions: one receive from quitCh, which the read worker of
\* session is blocked sending on.
reapSessions(session) ==
    /\ rpc[session] = "quit"
    /\ Close(session)
    /\ out' = <<sendClose(ID[session], Addr[session])>>
    /\ sessionStore' = Delete(sessionStore, Key(session))
    /\ rpc' = [rpc EXCEPT ![session] = "exit"]
    /\ UNCHANGED <<acceptCh, made, Addr, ID, lerr, receiveCh, readVars,
                   ackVars, writeVars, rmsg, rn, rerr, timeoutTimer, accepted,
                   peerVars, callVars, clientStore>>

(***************************************************************************)
(* session.go: the read path.                                              *)
(***************************************************************************)
\* appendRead without its comparison of pos with len(s.readBuffer).
appendReadAnyPos(closed, len, pos, blen) ==
    IF closed THEN [append |-> FALSE, n |-> len, err |-> TRUE]
    ELSE IF pos < 0 THEN [append |-> FALSE, n |-> len, err |-> TRUE]
    ELSE IF pos > maxInt - len
         THEN [append |-> FALSE, n |-> len, err |-> TRUE]
         ELSE [append |-> TRUE, n |-> len + blen, err |-> FALSE]

\* appendRead returning the length it found instead of the one it leaves.
appendReadOldLen(closed, len, pos, blen) ==
    IF closed THEN [append |-> FALSE, n |-> len, err |-> TRUE]
    ELSE IF pos < 0 THEN [append |-> FALSE, n |-> len, err |-> TRUE]
    ELSE IF pos # len THEN [append |-> FALSE, n |-> len, err |-> TRUE]
    ELSE IF pos > maxInt - len
         THEN [append |-> FALSE, n |-> len, err |-> TRUE]
         ELSE [append |-> TRUE, n |-> len, err |-> FALSE]

\* Session.appendRead(pos, b) on a session whose context is closed or not
\* and whose readBuffer holds len bytes, for b of blen bytes: whether it
\* appends b, and the (n, err) it returns.  Go's int has 64 bits, so its
\* pos + len(s.readBuffer) does not wrap; the comparison with maxInt is
\* written here without the sum.
appendRead(closed, len, pos, blen) ==
    IF closed THEN [append |-> FALSE, n |-> len, err |-> TRUE]
    ELSE IF pos < 0 THEN [append |-> FALSE, n |-> len, err |-> TRUE]
    ELSE IF pos # len THEN [append |-> FALSE, n |-> len, err |-> TRUE]
    ELSE IF pos > maxInt - len   \* total := pos + len(s.readBuffer)
         THEN [append |-> FALSE, n |-> len, err |-> TRUE]
         ELSE [append |-> TRUE, n |-> len + blen, err |-> FALSE]

\* The loop as a plain store of the ack'd length.
ackUpdateStore(last, length) == length

\* The CAS loop of readWorker on lastAck: the value it leaves.
ackUpdate(last, length) == IF length > last THEN length ELSE last

\* readWorker, case <-s.ctx.Done()
RWDone(o) ==
    /\ rpc[o] = "select"
    /\ ctx[o] = "done"
    /\ rpc' = [rpc EXCEPT ![o] = "exit"]
    /\ out' = <<>>
    /\ UNCHANGED <<listenerVars, ctx, receiveCh, readVars, ackVars, writeVars,
                   rmsg, rn, rerr, timeoutTimer, accepted, peerVars, callVars, clientStore>>

\* timeoutTimer fires: ReadTimeout has passed since the worker started or
\* last took a message.  A context cancelled before that stops the worker
\* first.
TimerFires(o) ==
    /\ rpc[o] = "select"
    /\ ctx[o] = "live"
    /\ ~timeoutTimer[o]
    /\ timeoutTimer' = [timeoutTimer EXCEPT ![o] = TRUE]
    /\ out' = <<>>
    /\ UNCHANGED <<listenerVars, ctx, receiveCh, readVars, ackVars, writeVars,
                   rpc, rmsg, rn, rerr, accepted, peerVars, callVars, clientStore>>

\* readWorker, case <-timeoutTimer.C: then blocked on s.quitCh <- s
RWTimeout(o) ==
    /\ rpc[o] = "select"
    /\ timeoutTimer[o]
    /\ rpc' = [rpc EXCEPT ![o] = "quit"]
    /\ out' = <<>>
    /\ UNCHANGED <<listenerVars, ctx, receiveCh, readVars, ackVars, writeVars,
                   rmsg, rn, rerr, timeoutTimer, accepted, peerVars, callVars, clientStore>>

\* readWorker without its check of the ack'd length.
ackExceedsNever(length, max) == FALSE

\* readWorker: msg.Length > maxAckable
ackExceeds(length, max) == length > max

\* readWorker, case msg := <-s.receiveCh with an ack: the timer is reset,
\* then the check against maxAckable.
RWAck(o) ==
    /\ rpc[o] = "select"
    /\ receiveCh[o] # <<>>
    /\ Head(receiveCh[o]).Type = "ack"
    /\ receiveCh' = [receiveCh EXCEPT ![o] = Tail(@)]
    /\ timeoutTimer' = [timeoutTimer EXCEPT ![o] = FALSE]
    /\ IF ackExceeds(Head(receiveCh[o]).Length, maxAckable[o])
       THEN /\ out' = <<sendClose(ID[o], Addr[o])>>
            /\ Close(o)
            /\ rpc' = [rpc EXCEPT ![o] = "quit"]
            /\ UNCHANGED rmsg
       ELSE /\ out' = <<>>
            /\ rmsg' = [rmsg EXCEPT ![o] = Head(receiveCh[o])]
            /\ rpc' = [rpc EXCEPT ![o] = "ackStore"]
            /\ UNCHANGED ctx
    /\ UNCHANGED <<listenerVars, readVars, ackVars, writeVars, rn, rerr,
                   accepted, peerVars, callVars, clientStore>>

\* readWorker: the loop that raises lastAck to the ack'd length.
RWAckStore(o) ==
    /\ rpc[o] = "ackStore"
    /\ lastAck' = [lastAck EXCEPT ![o] = ackUpdate(@, rmsg[o].Length)]
    /\ rpc' = [rpc EXCEPT ![o] = "select"]
    /\ rmsg' = [rmsg EXCEPT ![o] = NoMsg]
    /\ out' = <<>>
    /\ UNCHANGED <<listenerVars, ctx, receiveCh, readVars, maxAckable,
                   writeVars, rn, rerr, timeoutTimer, accepted, peerVars, callVars, clientStore>>

\* readWorker, case msg := <-s.receiveCh with data: appendRead.
RWData(o) ==
    /\ rpc[o] = "select"
    /\ receiveCh[o] # <<>>
    /\ Head(receiveCh[o]).Type = "data"
    /\ receiveCh' = [receiveCh EXCEPT ![o] = Tail(@)]
    /\ LET m == Head(receiveCh[o])
           r == appendRead(ctx[o] = "done", RecvLen(o), m.Pos, Len(m.Data))
       IN /\ readBuffer' = IF r.append
                           THEN [readBuffer EXCEPT ![o] = @ \o m.Data]
                           ELSE readBuffer
          /\ rn' = [rn EXCEPT ![o] = r.n]
          /\ rerr' = [rerr EXCEPT ![o] = r.err]
          /\ rmsg' = [rmsg EXCEPT ![o] = m]
    /\ rpc' = [rpc EXCEPT ![o] = "sendAck"]
    /\ timeoutTimer' = [timeoutTimer EXCEPT ![o] = FALSE]
    /\ out' = <<>>
    /\ UNCHANGED <<listenerVars, ctx, readBase, readIndex, readCh, delivered,
                   eof, ackVars, writeVars, accepted, peerVars, callVars, clientStore>>

\* readWorker: s.sendAck(n), then the wake-up of the reader unless appendRead
\* failed.
RWSendAck(o) ==
    /\ rpc[o] = "sendAck"
    /\ out' = <<sendAck(o, rn[o])>>
    /\ readCh' = IF ~rerr[o] /\ readCh[o] < readChCap
                 THEN [readCh EXCEPT ![o] = @ + 1]
                 ELSE readCh
    /\ rpc' = [rpc EXCEPT ![o] = "select"]
    /\ rmsg' = [rmsg EXCEPT ![o] = NoMsg]
    /\ UNCHANGED <<listenerVars, ctx, receiveCh, readBuffer, readBase,
                   readIndex, delivered, eof, ackVars, writeVars, rn, rerr,
                   timeoutTimer, accepted, peerVars, callVars, clientStore>>

\* Session.Read returning io.EOF whenever the context is done.
readEOFClosed(done, index, len) == done

\* Session.Read: whether it returns io.EOF.  done: its select took the case
\* <-s.ctx.Done(); index and len: s.readIndex and len(s.readBuffer).
readEOF(done, index, len) == done /\ index >= len

\* The copy of Session.Read into a buffer of blen bytes.
readCopy(o, blen) ==
    LET n == IF readIndex[o] >= RecvLen(o) THEN 0
             ELSE Min(blen, RecvLen(o) - readIndex[o])
        from == readIndex[o] - readBase[o]
    IN /\ delivered' = [delivered EXCEPT ![o] =
                           @ \o SubSeq(readBuffer[o], from + 1, from + n)]
       /\ readIndex' = [readIndex EXCEPT ![o] = @ + n]

\* Session.Read(b), case <-s.readCh
ReadSignaled(o, blen) ==
    /\ accepted[o]
    /\ readCh[o] > 0
    /\ readCh' = [readCh EXCEPT ![o] = @ - 1]
    /\ readCopy(o, blen)
    /\ eof' = [eof EXCEPT ![o] = readEOF(FALSE, readIndex[o], RecvLen(o))]
    /\ out' = <<>>
    /\ UNCHANGED <<listenerVars, ctx, receiveCh, readBuffer, readBase,
                   ackVars, writeVars, rwVars, accepted, peerVars, callVars, clientStore>>

\* Session.Read(b), case <-s.ctx.Done(): io.EOF when all was read.
ReadClosed(o, blen) ==
    /\ accepted[o]
    /\ ctx[o] = "done"
    /\ readCopy(o, blen)
    /\ eof' = [eof EXCEPT ![o] = readEOF(TRUE, readIndex[o], RecvLen(o))]
    /\ out' = <<>>
    /\ UNCHANGED <<listenerVars, ctx, receiveCh, readBuffer, readBase,
                   readCh, ackVars, writeVars, rwVars, accepted, peerVars, callVars, clientStore>>

(***************************************************************************)
(* session.go: the write path.                                             *)
(***************************************************************************)
\* Session.Write refusing a total of maxInt bytes.
writeCheckGe(closed, len, blen) ==
    IF closed THEN [append |-> FALSE, n |-> len, err |-> TRUE]
    ELSE IF blen >= maxInt - len
         THEN [append |-> FALSE, n |-> len, err |-> TRUE]
         ELSE [append |-> TRUE, n |-> blen, err |-> FALSE]

\* Session.Write(b) on a session whose context is closed or not and whose
\* writeBuffer holds len bytes, for b of blen bytes: whether it appends b,
\* and the (n, err) it returns.  total := len(s.writeBuffer) + len(b) does
\* not wrap in Go's int; total > maxInt is written here without the sum.
writeCheck(closed, len, blen) ==
    IF closed THEN [append |-> FALSE, n |-> len, err |-> TRUE]
    ELSE IF blen > maxInt - len
         THEN [append |-> FALSE, n |-> len, err |-> TRUE]
         ELSE [append |-> TRUE, n |-> blen, err |-> FALSE]

\* s.writeLock is held: tryWrite locks it on entry and unlocks it by defer,
\* when it returns after sendData and the update of maxAckable.  Write
\* holds it only within its one step.
writeLock(o) == wpc[o] = "sent"

\* Session.Write(b), b the next n bytes of the application's stream.  It
\* waits for writeLock, which tryWrite holds from its send to its return.
Write(o, n) ==
    /\ accepted[o]
    /\ ~writeLock(o)
    /\ Len(writeBuffer[o]) + n <= MaxWriteLen
    /\ LET b == [i \in 1..n |-> AppByte(Len(writeBuffer[o]) + i)]
       IN writeBuffer' =
            IF writeCheck(ctx[o] = "done", Len(writeBuffer[o]), Len(b)).append
            THEN [writeBuffer EXCEPT ![o] = @ \o b]
            ELSE writeBuffer
    /\ out' = <<>>
    /\ UNCHANGED <<listenerVars, ctx, receiveCh, readVars, ackVars,
                   writeIndex, wpc, packedN, rwVars, accepted, peerVars, callVars, clientStore>>

\* The lengths of writeBuffer that Session.Write is called at by itself: the
\* short ones and the ones next to maxInt.
WriteLens == {0, 1, maxInt - 2, maxInt - 1, maxInt}

\* Session.Write(b) by itself, on a session with len bytes in writeBuffer.
CallWrite(closed, len, blen) ==
    /\ call' = [fn |-> "Write", closed |-> closed, len |-> len, blen |-> blen]
    /\ ret' = writeCheck(closed, len, blen)
    /\ UNCHANGED <<listenerVars, ctx, receiveCh, readVars, ackVars, writeVars,
                   rwVars, accepted, peerVars, clientStore, out>>

\* Session.Close called by the application (reverseSessionHandler's defer).
AppClose(o) ==
    /\ accepted[o]
    /\ Close(o)
    /\ out' = <<>>
    /\ UNCHANGED <<listenerVars, receiveCh, readVars, ackVars, writeVars,
                   rwVars, accepted, peerVars, callVars, clientStore>>

\* writeWorker, case <-s.ctx.Done()
WWDone(o) ==
    /\ wpc[o] = "select"
    /\ ctx[o] = "done"
    /\ wpc' = [wpc EXCEPT ![o] = "exit"]
    /\ out' = <<>>
    /\ UNCHANGED <<listenerVars, ctx, receiveCh, readVars, ackVars,
                   writeBuffer, writeIndex, packedN, rwVars, accepted, peerVars, callVars, clientStore>>

\* A tick that leaves writeIndex where it is.
tickIndexKeep(o) == writeIndex[o]

\* The index writeWorker resumes from on a tick.
tickIndex(o) == lastAck[o]

\* writeWorker, case <-ticker.C
WWTick(o) ==
    /\ wpc[o] = "select"
    /\ writeIndex' = [writeIndex EXCEPT ![o] = tickIndex(o)]
    /\ out' = <<>>
    /\ UNCHANGED <<listenerVars, ctx, receiveCh, readVars, ackVars,
                   writeBuffer, wpc, packedN, rwVars, accepted, peerVars, callVars, clientStore>>

\* The data message tryWrite packs from writeIndex.
tryWriteMsg(o) ==
    LET p == pack(ID[o], writeIndex[o],
                  SubSeq(writeBuffer[o], writeIndex[o] + 1, Len(writeBuffer[o])))
    IN [n |-> p.n, msg |-> Msg("data", ID[o], writeIndex[o], p.Data, 0)]

\* A write worker whose select takes default on a closed session too.
WWSendClosed(o) ==
    /\ wpc[o] = "select"
    /\ writeIndex[o] < Len(writeBuffer[o])
    /\ LET t == tryWriteMsg(o)
       IN /\ Validate(t.msg)
          /\ out' = <<Sent(Addr[o], t.msg)>>
          /\ packedN' = [packedN EXCEPT ![o] = t.n]
    /\ wpc' = [wpc EXCEPT ![o] = "sent"]
    /\ UNCHANGED <<listenerVars, ctx, receiveCh, readVars, ackVars,
                   writeBuffer, writeIndex, rwVars, accepted, peerVars, callVars, clientStore>>

\* writeWorker, default: tryWrite up to sendData.  With nothing to send, or
\* an invalid message, it returns at once.
WWSend(o) ==
    /\ wpc[o] = "select"
    /\ ctx[o] # "done"
    /\ writeIndex[o] < Len(writeBuffer[o])
    /\ LET t == tryWriteMsg(o)
       IN /\ Validate(t.msg)
          /\ out' = <<Sent(Addr[o], t.msg)>>
          /\ packedN' = [packedN EXCEPT ![o] = t.n]
    /\ wpc' = [wpc EXCEPT ![o] = "sent"]
    /\ UNCHANGED <<listenerVars, ctx, receiveCh, readVars, ackVars,
                   writeBuffer, writeIndex, rwVars, accepted, peerVars, callVars, clientStore>>

\* tryWrite after sendData: advance writeIndex, raise maxAckable to it.
WWUpdate(o) ==
    /\ wpc[o] = "sent"
    /\ writeIndex' = [writeIndex EXCEPT ![o] = @ + packedN[o]]
    /\ maxAckable' = [maxAckable EXCEPT ![o] =
                         IF writeIndex[o] + packedN[o] > @
                         THEN writeIndex[o] + packedN[o] ELSE @]
    /\ wpc' = [wpc EXCEPT ![o] = "select"]
    /\ packedN' = [packedN EXCEPT ![o] = 0]
    /\ out' = <<>>
    /\ UNCHANGED <<listenerVars, ctx, receiveCh, readVars, lastAck,
                   writeBuffer, rwVars, accepted, peerVars, callVars, clientStore>>

(***************************************************************************)
(* client.go: DialLRCP and the ClientCoordinator.  A client session is a   *)
(* Session whose peer is the server at ServerAddr.                         *)
(***************************************************************************)
ServerAddr == "srv"
\* The ids rand.Intn draws in the model.
ClientIDs == {7, 8}

\* getClientId: i = rand.Intn(2147483648), before the loop.
getClientIdDraw(i) ==
    /\ call.fn # "getClientId" \/ ret # NoRet
    /\ call' = [fn |-> "getClientId", i |-> i]
    /\ ret' = NoRet
    /\ out' = <<>>
    /\ UNCHANGED <<listenerVars, ctx, receiveCh, readVars, ackVars, writeVars,
                   rwVars, accepted, peerVars, clientStore>>

\* getClientId is in its loop with the i it drew.
InGetClientId == call.fn = "getClientId" /\ ret = NoRet

\* getClientId: an iteration of the loop whose LoadOrStore(i, conn) finds i
\* stored.  The loop has no post statement: the next iteration tries the
\* same i.
getClientIdSpin ==
    /\ InGetClientId
    /\ call.i \in clientStore
    /\ UNCHANGED vars

\* A client session that sends data before its connect is acknowledged.
ackedConnectAlways(o) == TRUE

\* The write worker of a client session may send data: lastAck >= 0, the
\* ack of its connect has arrived (lastAck starts at -1).
ackedConnect(o) == lastAck[o] >= 0

\* newClientSession(addr, id, ...): a fresh session o that awaits the ack of
\* its connect.
newClientSession(o, addr, id) ==
    /\ NewSession(o, addr, id, FALSE)
    /\ lastAck' = [lastAck EXCEPT ![o] = -1]

\* DialLRCP from the iteration of getClientId's loop that stores i:
\* newClientSession, the listen goroutine, the connect, and the return of
\* the session to the caller.
DialLRCP ==
    LET session == made + 1
        i == call.i
    IN /\ InGetClientId
       /\ i \notin clientStore
       /\ made < MaxObjs
       /\ clientStore' = clientStore \cup {i}
       /\ ret' = [err |-> FALSE, id |-> i]
       /\ call' = call
       /\ newClientSession(session, ServerAddr, i)
       /\ accepted' = [accepted EXCEPT ![session] = TRUE]
       /\ out' = <<Sent(ServerAddr, Msg("connect", i, 0, <<>>, 0))>>
       /\ UNCHANGED <<sessionStore, acceptCh, lerr, receiveCh, readVars,
                      maxAckable, writeBuffer, writeIndex, packedN, rmsg, rn,
                      rerr, timeoutTimer, peerVars>>

\* Session.Receive: hand a frame to the read worker, or drop it.
Receive(o, m) ==
    receiveCh' = IF Len(receiveCh[o]) < receiveChCap
                 THEN [receiveCh EXCEPT ![o] = Append(@, m)]
                 ELSE receiveCh

\* ClientCoordinator.listen(s): one iteration of its loop for a datagram d.
ClientListen(o, d) ==
    LET p == parseMessage(d)
    IN /\ Addr[o] = ServerAddr
       /\ ctx[o] # "none"
       /\ out' = <<>>
       /\ IF ~p.ok
          THEN UNCHANGED <<ctx, receiveCh>>
          ELSE IF p.msg.Session # ID[o] \/ p.msg.Type \in {"connect", "close"}
               THEN Close(o) /\ UNCHANGED receiveCh
               ELSE Receive(o, p.msg) /\ UNCHANGED ctx
       /\ UNCHANGED <<listenerVars, readVars, ackVars, writeVars, rwVars,
                      accepted, peerVars, callVars, clientStore>>

\* ClientCoordinator.reapSessions: one receive from quitCh.
clientReapSessions(session) ==
    /\ rpc[session] = "quit"
    /\ Addr[session] = ServerAddr
    /\ Close(session)
    /\ out' = <<sendClose(ID[session], Addr[session])>>
    /\ clientStore' = clientStore \ {ID[session]}
    /\ rpc' = [rpc EXCEPT ![session] = "exit"]
    /\ UNCHANGED <<listenerVars, receiveCh, readVars, ackVars, writeVars,
                   rmsg, rn, rerr, timeoutTimer, accepted, peerVars, callVars>>

\* A tick of a client session that sends nothing while the connect is not
\* acknowledged.
WWTickClientSilent(o) ==
    IF ackedConnect(o)
    THEN WWTick(o)
    ELSE /\ wpc[o] = "select"
         /\ out' = <<>>
         /\ UNCHANGED <<listenerVars, ctx, receiveCh, readVars, ackVars,
                        writeVars, rwVars, accepted, peerVars, callVars,
                        clientStore>>

\* writeWorker of a client session, case <-ticker.C: the connect again
\* while it is not acknowledged.
WWTickClient(o) ==
    IF ackedConnect(o)
    THEN WWTick(o)
    ELSE /\ wpc[o] = "select"
         /\ out' = <<Sent(Addr[o], Msg("connect", ID[o], 0, <<>>, 0))>>
         /\ UNCHANGED <<listenerVars, ctx, receiveCh, readVars, ackVars,
                        writeVars, rwVars, accepted, peerVars, callVars,
                        clientStore>>

\* writeWorker of a client session, default: tryWrite once the connect is
\* acknowledged.
WWSendClient(o) ==
    /\ ackedConnect(o)
    /\ WWSend(o)

\* The connect o has just sent reaches the server, which answers it with
\* /ack/ID/0/, and the answer reaches the client's listen loop.  A connect
\* that is followed by another step first is lost.
ServerAcksConnect(o) ==
    /\ ctx[o] # "none"
    /\ out = <<Sent(ServerAddr, Msg("connect", ID[o], 0, <<>>, 0))>>
    /\ ClientListen(o, Dgram("ack", ID[o], 0, <<>>, 0))

\* The server acknowledges length bytes of the data of a session whose
\* connect is acknowledged.
ServerAcksData(o, length) ==
    /\ ackedConnect(o)
    /\ length <= maxAckable[o]
    /\ ClientListen(o, Dgram("ack", ID[o], 0, <<>>, length))

\* One client session and a server that answers what reaches it: connects
\* and data are lost any number of times.
NextAwait ==
    \/ \E i \in ClientIDs : made = 0 /\ getClientIdDraw(i)
    \/ DialLRCP
    \/ \E o \in Objs : ServerAcksConnect(o)
    \/ \E o \in Objs : \E length \in 0..MaxAckLen : ServerAcksData(o, length)
    \/ \E o \in Objs : RWAck(o)
    \/ \E o \in Objs : RWAckStore(o)
    \/ \E o \in Objs : \E n \in 1..MaxWriteLen : Write(o, n)
    \/ \E o \in Objs : WWTickClient(o)
    \/ \E o \in Objs : WWSendClient(o)
    \/ \E o \in Objs : WWUpdate(o)

\* One client session: the application dials once and writes at once, the
\* server acknowledges the connect and the data, late or never.
NextDial ==
    \/ \E i \in ClientIDs : made = 0 /\ getClientIdDraw(i)
    \/ DialLRCP
    \/ \E o \in Objs : \E length \in 0..MaxAckLen :
          ClientListen(o, Dgram("ack", ID[o], 0, <<>>, length))
    \/ \E o \in Objs : ClientListen(o, Dgram("close", ID[o], 0, <<>>, 0))
    \/ \E o \in Objs : RWAck(o)
    \/ \E o \in Objs : RWAckStore(o)
    \/ \E o \in Objs : RWDone(o)
    \/ \E o \in Objs : clientReapSessions(o)
    \/ \E o \in Objs : \E n \in 1..MaxWriteLen : Write(o, n)
    \/ \E o \in Objs : WWTickClient(o)
    \/ \E o \in Objs : WWSendClient(o)
    \/ \E o \in Objs : WWUpdate(o)
    \/ \E o \in Objs : WWDone(o)

\* A client process whose application dials again and again and closes
\* sessions, with a server that sends nothing but close frames.
NextClientIds ==
    \/ \E i \in ClientIDs : made < MaxObjs /\ getClientIdDraw(i)
    \/ getClientIdSpin
    \/ DialLRCP
    \/ \E o \in Objs : ClientListen(o, Dgram("close", ID[o], 0, <<>>, 0))
    \/ \E o \in Objs : TimerFires(o)
    \/ \E o \in Objs : RWTimeout(o)
    \/ \E o \in Objs : RWDone(o)
    \/ \E o \in Objs : clientReapSessions(o)
    \/ \E o \in Objs : WWDone(o)
    \/ \E o \in Objs : AppClose(o)

(***************************************************************************)
(* The peers.                                                              *)
(***************************************************************************)
\* The peer application writes one more byte of its stream.
PeerWrite(k) ==
    /\ peerLen[k] < peerBase[k] + MaxPeerLen
    /\ peerLen' = [peerLen EXCEPT ![k] = @ + 1]
    /\ out' = <<>>
    /\ UNCHANGED <<listenerVars, ctx, receiveCh, readVars, ackVars, writeVars,
                   rwVars, accepted, peerBase, callVars, clientStore>>

\* The data datagram a peer's write worker sends for the bytes
\* [pos, end) of its stream.
PeerDataDgram(k, pos, end) ==
    Dgram("data", k[2], pos,
          pack(k[2], pos, PeerSlice(pos, end)).Data
            \o <<SLASH>>, 0)

PeerConnect(k) == listen(k[1], Dgram("connect", k[2], 0, <<>>, 0))
PeerClose(k) == listen(k[1], Dgram("close", k[2], 0, <<>>, 0))
PeerAck(k, length) == listen(k[1], Dgram("ack", k[2], 0, <<>>, length))
PeerData(k, pos, end) == listen(k[1], PeerDataDgram(k, pos, end))

\* The reordering scenario: session 1 of peer p1, whose application has
\* written abcxyz.
ReorderKey == <<"p1", 1>>
abc == <<"a", "b", "c">>
xyz == <<"x", "y", "z">>
\* The largest buffer the application reads the scenario's bytes with.
ReorderReadLen == 6

\* The peer of key k sends the data frame for bytes data at pos.
PeerSends(k, pos, data) ==
    listen(k[1], Dgram("data", k[2], pos,
                       pack(k[2], pos, data).Data \o <<SLASH>>, 0))

\* The peer sends /data/1/3/xyz/ and /data/1/0/abc/ in any order, each any
\* number of times; the application reads.
NextReorder ==
    \/ PeerSends(ReorderKey, 3, xyz)
    \/ PeerSends(ReorderKey, 0, abc)
    \/ \E o \in Objs : RWData(o)
    \/ \E o \in Objs : RWSendAck(o)
    \/ \E o \in Objs : \E blen \in 1..ReorderReadLen : ReadSignaled(o, blen)

(***************************************************************************)
(* message.go called by itself: the codec on inputs of its own.            *)
(***************************************************************************)
\* The bytes the codec is called with, and the longest string of them tried
\* in every combination.
CodecBytes == {"a", SLASH, BACKSLASH}
MaxTailLen == 2
Tails == UNION {[1..n -> CodecBytes] : n \in 0..MaxTailLen}
\* n times the byte c.
Run(c, n) == [i \in 1..n |-> c]

\* The session ids and positions pack is called with: 1, 5 and 10 digits.
PackSessions == {7, 12345, maxInt}
PackPositions == {0, 12345, maxInt}
\* The bytes of data a frame for session and pos has room for.
Room(session, pos) ==
    maxMessageSize - (9 + DigitLen(session) + DigitLen(pos))
\* Source bytes for pack: the short strings, and strings that reach the
\* room of the frame with ordinary bytes or with slashes.
PackSources(session, pos) ==
    LET room == Room(session, pos)
    IN Tails
       \cup {Run("a", n) \o t : n \in (room - 2)..room, t \in Tails}
       \cup {Run(SLASH, n) \o t :
                n \in ((room \div 2) - 1)..(room \div 2), t \in Tails}

\* The numeric fields parseInt is called with: every string of up to
\* MaxFieldLen bytes over digits, signs and a letter, and the fields around
\* maxInt.
FieldBytes == {"0", "5", "+", "-", "a"}
MaxFieldLen == 2
OverField == Append(SubSeq(Itoa(maxInt), 1, 9), "8")
IntFields ==
    UNION {[1..n -> FieldBytes] : n \in 0..MaxFieldLen}
    \cup {<<"0", "0", "7">>, Itoa(maxInt), OverField,
          <<"+">> \o Itoa(maxInt), <<"-">> \o Itoa(maxInt),
          <<"-">> \o OverField}
\* The datagrams parseMessage is called with: each type with numeric fields
\* that are empty, plain, signed, not numeric, maxInt and maxInt + 1; a data
\* field with an escaped '/'; and no bytes, and bytes without the leading '/'.
FrameFields ==
    {<<>>, <<"5">>, <<"+", "5">>, <<"-", "5">>, <<"5", "a">>, Itoa(maxInt),
     OverField}
WireOf(type, f1, f2) ==
    LET head == <<SLASH>> \o TypeBytes(type) \o <<SLASH>> \o f1 \o <<SLASH>>
    IN CASE type = "data" ->
              head \o f2 \o <<SLASH, "a", BACKSLASH, SLASH, SLASH>>
         [] type = "ack" -> head \o f2 \o <<SLASH>>
         [] OTHER -> head
WireFrames ==
    {WireOf(type, f1, f2) : type \in Types, f1 \in FrameFields,
                            f2 \in FrameFields}
    \cup {<<>>, TypeBytes("ack")}

\* The bytes parseField is called with, and that follow the header of a
\* datagram given to parseMessage: every string of up to MaxSplitLen bytes.
MaxSplitLen == 4
SplitStrings == UNION {[1..n -> CodecBytes] : n \in 0..MaxSplitLen}
\* The header of a data and of a connect datagram, up to the '/' after the
\* last numeric field.
DataHead == <<SLASH>> \o TypeBytes("data") \o <<SLASH, "5", SLASH, "0", SLASH>>
ConnectHead == <<SLASH>> \o TypeBytes("connect") \o <<SLASH, "5", SLASH>>

\* parseField(bs)
CallParseField(bs) ==
    /\ call = NoCall
    /\ call' = [fn |-> "parseField", bs |-> bs]
    /\ LET r == parseField(bs)
       IN ret' = [err |-> ~r.ok, field |-> r.field, rest |-> r.rest]
    /\ UNCHANGED <<listenerVars, ctx, receiveCh, readVars, ackVars, writeVars,
                   rwVars, accepted, peerVars, clientStore, out>>

\* m.pack(data) with m.Session = session and m.Pos = pos.
CallPack(session, pos, data) ==
    /\ call = NoCall
    /\ call' = [fn |-> "pack", session |-> session, pos |-> pos, data |-> data]
    /\ LET r == pack(session, pos, data)
       IN ret' = [err |-> FALSE, n |-> r.n, Data |-> r.Data]
    /\ UNCHANGED <<listenerVars, ctx, receiveCh, readVars, ackVars, writeVars,
                   rwVars, accepted, peerVars, clientStore, out>>

\* parseInt(bs)
CallParseInt(bs) ==
    /\ call = NoCall
    /\ call' = [fn |-> "parseInt", bs |-> bs]
    /\ ret' = parseInt(bs)
    /\ UNCHANGED <<listenerVars, ctx, receiveCh, readVars, ackVars, writeVars,
                   rwVars, accepted, peerVars, clientStore, out>>

\* parseMessage(bs)
CallParseMessage(bs) ==
    /\ call = NoCall
    /\ call' = [fn |-> "parseMessage", bs |-> bs]
    /\ LET r == parseMessageBytes(bs)
       IN ret' = [err |-> ~r.ok, msg |-> r.msg]
    /\ UNCHANGED <<listenerVars, ctx, receiveCh, readVars, ackVars, writeVars,
                   rwVars, accepted, peerVars, clientStore, out>>

\* m.encode(buf) on a message of the given type and fields; a data message
\* is first filled by m.pack(data), as tryWrite does.  call.n is what pack
\* returned.
CallEncode(type, session, pos, data, length) ==
    /\ call = NoCall
    /\ LET p == pack(session, pos, data)
           m == Msg(type, session, pos,
                    IF type = "data" THEN p.Data ELSE <<>>, length)
       IN /\ call' = [fn |-> "encode", msg |-> m, data |-> data,
                      n |-> IF type = "data" THEN p.n ELSE 0]
          /\ ret' = encode(m)
    /\ UNCHANGED <<listenerVars, ctx, receiveCh, readVars, ackVars, writeVars,
                   rwVars, accepted, peerVars, clientStore, out>>

\* The calls of the codec, one to a behaviour.
NextCodec ==
    \/ \E session \in PackSessions : \E pos \in PackPositions :
          \E data \in PackSources(session, pos) : CallPack(session, pos, data)
    \/ \E bs \in IntFields : CallParseInt(bs)
    \/ \E bs \in WireFrames : CallParseMessage(bs)
    \/ \E bs \in SplitStrings : CallParseField(bs)
    \/ \E head \in {DataHead, ConnectHead} : \E bs \in SplitStrings :
          CallParseMessage(head \o bs)
    \/ \E type \in {"connect", "close", "unknown"} :
          \E session \in PackSessions : CallEncode(type, session, 0, <<>>, 0)
    \/ \E session \in PackSessions : \E length \in PackPositions :
          CallEncode("ack", session, 0, <<>>, length)
    \/ \E session \in PackSessions : \E pos \in PackPositions :
          \E data \in PackSources(session, pos) :
             CallEncode("data", session, pos, data, 0)

\* A data frame of exactly maxMessageSize bytes for session id, at pos 0.
FullFrame(id) ==
    encode(Msg("data", id, 0, Run("a", Room(id, 0)), 0)).bs
\* Datagrams of maxMessageSize + 1 bytes and more: a full frame with one
\* more byte after it, a full frame twice, and a well-formed frame of
\* maxMessageSize + 1 bytes.
LongDgrams(id) ==
    LET f == FullFrame(id)
    IN {Append(f, "a"), f \o f,
        SubSeq(f, 1, maxMessageSize - 1) \o <<"a", SLASH>>}
\* The short frames of a connected peer: ack of nothing, one byte at pos 0,
\* close.
ShortDgrams(id) ==
    {encode(Msg("ack", id, 0, <<>>, 0)).bs,
     encode(Msg("data", id, 0, <<"a">>, 0)).bs,
     encode(Msg("close", id, 0, <<>>, 0)).bs}
\* A peer's datagram of the bytes bs reaches the listener.
PeerBytes(k, bs) == listenBytes(k[1], bs)

\* The listener on datagrams given as bytes, short ones and ones longer
\* than its buffer, from the address of a session and from another one; the
\* read worker takes what the listener forwards.
NextLong ==
    \/ \E k \in Keys2 : \E bs \in LongDgrams(k[2]) : PeerBytes(k, bs)
    \/ \E k \in Keys2 : \E bs \in ShortDgrams(k[2]) : PeerBytes(k, bs)
    \/ \E o \in Objs : RWData(o)
    \/ \E o \in Objs : RWSendAck(o)
    \/ \E o \in Objs : RWAck(o)
    \/ \E o \in Objs : RWAckStore(o)
    \/ \E o \in Objs : RWDone(o)

\* The steps of the listener and of connection handling.
NextListen ==
    \/ \E o \in Objs : TimerFires(o)
    \/ \E k \in Keys : PeerConnect(k)
    \/ \E k \in Keys : PeerClose(k)
    \/ \E k \in Keys : PeerAck(k, 0)
    \/ Accept
    \/ \E o \in Objs : reapSessions(o)
    \/ \E o \in Objs : RWDone(o)
    \/ \E o \in Objs : RWTimeout(o)
    \/ \E o \in Objs : RWAck(o)
    \/ \E o \in Objs : RWAckStore(o)
    \/ \E o \in Objs : Write(o, MaxWriteLen)
    \/ \E o \in Objs : AppClose(o)
    \/ \E o \in Objs : WWDone(o)

\* The steps of the receiving direction: peer data in, Read out.
NextRead ==
    \/ \E o \in Objs : TimerFires(o)
    \/ \E k \in Keys : PeerWrite(k)
    \/ \E k \in Keys : PeerClose(k)
    \/ \E k \in Keys : \E pos \in peerBase[k]..peerLen[k] :
          \E end \in pos..peerLen[k] :
          PeerData(k, pos, end)
    \/ \E o \in Objs : reapSessions(o)
    \/ \E o \in Objs : RWDone(o)
    \/ \E o \in Objs : RWTimeout(o)
    \/ \E o \in Objs : RWData(o)
    \/ \E o \in Objs : RWSendAck(o)
    \/ \E o \in Objs : \E blen \in 1..MaxReadBuf : ReadSignaled(o, blen)
    \/ \E o \in Objs : \E blen \in 1..MaxReadBuf : ReadClosed(o, blen)
    \/ \E o \in Objs : AppClose(o)

\* The steps of the sending direction: Write in, data out, acks in.
NextWrite ==
    \/ \E o \in Objs : TimerFires(o)
    \/ \E k \in Keys : PeerClose(k)
    \/ \E k \in Keys : \E length \in 0..MaxAckLen : PeerAck(k, length)
    \/ \E o \in Objs : reapSessions(o)
    \/ \E o \in Objs : RWDone(o)
    \/ \E o \in Objs : RWTimeout(o)
    \/ \E o \in Objs : RWAck(o)
    \/ \E o \in Objs : RWAckStore(o)
    \/ \E o \in Objs : \E n \in 1..MaxWriteLen : Write(o, n)
    \/ \E o \in Objs : AppClose(o)
    \/ \E o \in Objs : WWDone(o)
    \/ \E o \in Objs : WWTick(o)
    \/ \E o \in Objs : WWSend(o)
    \/ \E o \in Objs : WWUpdate(o)

\* Datagrams parseMessage refuses: an unknown type, a data field that does
\* not end, one with an unescaped slash in it, and one with a backslash
\* before an ordinary byte.
BadDgrams(id) ==
    { Dgram("hello", id, 0, <<>>, 0),
      Dgram("data", id, 0, <<"a">>, 0),
      Dgram("data", id, 0, <<"a", SLASH, "a", SLASH>>, 0),
      Dgram("data", id, 0, <<BACKSLASH, "a", SLASH>>, 0) }

PeerGarbage(k, d) == listen(k[1], d)

\* The steps of the listener goroutine and of the application's calls of
\* Accept and Close: two peer addresses that use the same session id send
\* frames of every type, and datagrams that do not parse.  The sessions'
\* workers take their steps in the other specifications.
NextDemux ==
    \/ \E k \in Keys2 : PeerConnect(k)
    \/ \E k \in Keys2 : PeerClose(k)
    \/ \E k \in Keys2 : PeerAck(k, 0)
    \/ \E k \in Keys2 : PeerData(k, 0, peerLen[k])
    \/ \E k \in Keys2 : \E d \in BadDgrams(k[2]) : PeerGarbage(k, d)
    \/ Accept
    \/ \E o \in Objs : AppClose(o)

\* A peer that sends connect after connect and nothing else, so that no
\* session's read worker ever takes a frame: the timers run from the start
\* of the workers.
NextIdle ==
    \/ \E k \in Keys : PeerConnect(k)
    \/ \E k \in Keys : PeerClose(k)
    \/ Accept
    \/ \E o \in Objs : TimerFires(o)
    \/ \E o \in Objs : RWTimeout(o)
    \/ \E o \in Objs : reapSessions(o)
    \/ \E o \in Objs : RWDone(o)
    \/ \E o \in Objs : WWDone(o)
    \/ \E o \in Objs : AppClose(o)

\* The steps of the application on the write side of a session.
NextAppWrite ==
    \/ \E o \in Objs : \E n \in 1..MaxWriteLen : Write(o, n)
    \/ \E o \in Objs : AppClose(o)
    \/ \E closed \in BOOLEAN : \E len \in WriteLens :
          \E blen \in 0..(MaxWriteLen + 1) : CallWrite(closed, len, blen)

\* A session in both directions until it is closed, by the application, the
\* peer, a timeout or an ack of bytes never sent: the peer sends its first
\* byte again and again, the application writes byte by byte and reads.
NextClose ==
    \/ \E o \in Objs : TimerFires(o)
    \/ \E k \in Keys : PeerClose(k)
    \/ \E k \in Keys : \E length \in {1, MaxAckLen} : PeerAck(k, length)
    \/ \E k \in Keys : PeerSends(k, 0, <<"a">>)
    \/ \E o \in Objs : reapSessions(o)
    \/ \E o \in Objs : RWDone(o)
    \/ \E o \in Objs : RWTimeout(o)
    \/ \E o \in Objs : RWAck(o)
    \/ \E o \in Objs : RWAckStore(o)
    \/ \E o \in Objs : RWData(o)
    \/ \E o \in Objs : RWSendAck(o)
    \/ \E o \in Objs : ReadSignaled(o, 1)
    \/ \E o \in Objs : ReadClosed(o, 1)
    \/ \E o \in Objs : Write(o, 1)
    \/ \E o \in Objs : AppClose(o)
    \/ \E o \in Objs : WWDone(o)
    \/ \E o \in Objs : WWTick(o)
    \/ \E o \in Objs : WWSend(o)
    \/ \E o \in Objs : WWUpdate(o)

Next ==
    \/ NextListen \/ NextRead \/ NextWrite \/ NextDemux \/ NextIdle
    \/ NextAppWrite \/ NextDial \/ NextClientIds \/ NextReorder
    \/ NextCodec \/ NextLong \/ NextAwait \/ NextClose

\* Half of the largest numeric field value: the length of readBuffer from
\* which appendRead's pos + len(s.readBuffer) comes to exceed maxInt.
HalfMax == (maxInt - 1) \div 2

\* A state in which the session of key k is open, stored and accepted, its
\* peer has written base bytes, and the application has read them all.
InitOpen(k, base) ==
    /\ sessionStore = Store(<<>>, k, 1)
    /\ acceptCh = <<>>
    /\ lerr = FALSE
    /\ made = 1
    /\ Addr = [o \in Objs |-> IF o = 1 THEN k[1] ELSE ""]
    /\ ID = [o \in Objs |-> IF o = 1 THEN k[2] ELSE 0]
    /\ ctx = [o \in Objs |-> IF o = 1 THEN "live" ELSE "none"]
    /\ receiveCh = [o \in Objs |-> <<>>]
    /\ readCh = [o \in Objs |-> 0]
    /\ readBuffer = [o \in Objs |-> <<>>]
    /\ readBase = [o \in Objs |-> IF o = 1 THEN base ELSE 0]
    /\ readIndex = [o \in Objs |-> IF o = 1 THEN base ELSE 0]
    /\ lastAck = [o \in Objs |-> 0]
    /\ maxAckable = [o \in Objs |-> 0]
    /\ writeBuffer = [o \in Objs |-> <<>>]
    /\ writeIndex = [o \in Objs |-> 0]
    /\ rpc = [o \in Objs |-> IF o = 1 THEN "select" ELSE "none"]
    /\ timeoutTimer = [o \in Objs |-> FALSE]
    /\ rmsg = [o \in Objs |-> NoMsg]
    /\ rn = [o \in Objs |-> 0]
    /\ rerr = [o \in Objs |-> FALSE]
    /\ wpc = [o \in Objs |-> IF o = 1 THEN "select" ELSE "none"]
    /\ packedN = [o \in Objs |-> 0]
    /\ accepted = [o \in Objs |-> o = 1]
    /\ delivered = [o \in Objs |-> <<>>]
    /\ eof = [o \in Objs |-> FALSE]
    /\ call = NoCall
    /\ ret = NoRet
    /\ clientStore = {}
    /\ peerLen = [x \in Keys |-> IF x = k THEN base ELSE 0]
    /\ peerBase = [x \in Keys |-> IF x = k THEN base ELSE 0]
    /\ out = <<>>

\* The whole server.
Spec == Init /\ [][Next]_vars
\* The listener from its start, with peers that connect, close and ack,
\* and applications that accept sessions, write to them and close them.
SpecListen == Init /\ [][NextListen]_vars
\* The listener from its start, with two peers that have each written one
\* byte of their stream.
InitDemux ==
    /\ InitServer
    /\ peerLen = [k \in Keys2 |-> 1]
    /\ peerBase = [k \in Keys2 |-> 0]
SpecDemux == InitDemux /\ [][NextDemux]_vars
SpecIdle == Init /\ [][NextIdle]_vars
\* An accepted session receiving its peer's stream, from the start of the
\* stream or from HalfMax bytes into it.
InitRead == \E k \in Keys : \E base \in {0, HalfMax} : InitOpen(k, base)
SpecRead == InitRead /\ [][NextRead]_vars
\* The fresh, accepted session 1 of the reordering scenario.
SpecReorder == InitOpen(ReorderKey, 0) /\ [][NextReorder]_vars
\* An accepted session sending the application's stream.
InitWrite == \E k \in Keys : InitOpen(k, 0)
SpecWrite == InitWrite /\ [][NextWrite]_vars
\* The application writing to a session and closing it, and Session.Write
\* on buffers of the lengths WriteLens.
SpecAppWrite == InitWrite /\ [][NextAppWrite]_vars
\* A client process from its start.
SpecDial == Init /\ [][NextDial]_vars
\* An accepted session and its listener, on datagrams given as bytes.
SpecLong == InitWrite /\ [][NextLong]_vars
\* The codec called by itself.
SpecCodec == Init /\ [][NextCodec]_vars
SpecClientIds == Init /\ [][NextClientIds]_vars
\* The same, with datagrams that do not parse arriving from the session's
\* peer and from another address.
NextNoise ==
    \/ NextWrite
    \/ \E k \in Keys2 : \E d \in BadDgrams(k[2]) : PeerGarbage(k, d)
SpecNoise == InitWrite /\ [][NextNoise]_vars

(***************************************************************************)
(* Fairness.  The workers are goroutines the Go scheduler keeps running;   *)
(* the reaper and the application's reader are loops of their own.  These  *)
(* specifications start with one session, so fairness to the workers of    *)
(* some session is fairness to its workers.  A                             *)
(* peer sends the unacknowledged rest of its stream again on every tick of *)
(* its own write worker, and of what is sent again and again the channel   *)
(* delivers some copy while the session's receive channel has room.        *)
(***************************************************************************)
\* The peer has bytes the session of key k has not appended yet, and the
\* session's receive channel has room.
CanDeliver(k) ==
    /\ Loaded(sessionStore, k)
    /\ RecvLen(sessionStore[k]) < peerLen[k]
    /\ Len(receiveCh[sessionStore[k]]) < receiveChCap

\* The peer's frame for all those bytes reaches the receive channel.
Deliver(k) ==
    /\ CanDeliver(k)
    /\ PeerData(k, RecvLen(sessionStore[k]), peerLen[k])

FairnessRead ==
    /\ WF_vars(\E o \in Objs : RWData(o) \/ RWSendAck(o))
    /\ WF_vars(\E o \in Objs : \E blen \in 1..MaxReadBuf : ReadSignaled(o, blen))
    \* strong fairness of Deliver, its enabling condition written out
    /\ []<>(\E k \in Keys : CanDeliver(k))
          => []<><<\E k \in Keys : Deliver(k)>>_vars
FairRead == InitRead /\ [][NextRead]_vars /\ FairnessRead

FairnessWrite ==
    /\ WF_vars(\E o \in Objs : WWSend(o) \/ WWUpdate(o))
    /\ WF_vars(\E o \in Objs : reapSessions(o))
FairWrite == InitWrite /\ [][NextWrite]_vars /\ FairnessWrite

\* The read worker of a session keeps running, and so does the reaper.
FairnessTimeout ==
    /\ WF_vars(\E o \in Objs :
                  RWTimeout(o) \/ RWAck(o) \/ RWAckStore(o) \/ RWDone(o))
    /\ WF_vars(\E o \in Objs : reapSessions(o))
FairTimeout == InitWrite /\ [][NextWrite]_vars /\ FairnessTimeout

\* DialLRCP keeps running, and so do the read workers and the reaper of the
\* client.
FairnessClientIds ==
    /\ WF_vars(DialLRCP)
    /\ WF_vars(\E o \in Objs : RWTimeout(o) \/ RWDone(o))
    /\ WF_vars(\E o \in Objs : clientReapSessions(o))
FairClientIds == Init /\ [][NextClientIds]_vars /\ FairnessClientIds

\* The ticker of a client's write worker keeps firing and its read worker
\* keeps running; of the connects sent again and again, one reaches the
\* server and is answered.
FairnessAwait ==
    /\ WF_vars(\E o \in Objs : WWTickClient(o))
    /\ WF_vars(\E o \in Objs : RWAck(o) \/ RWAckStore(o))
    /\ SF_vars(\E o \in Objs : ServerAcksConnect(o))
FairAwait == Init /\ [][NextAwait]_vars /\ FairnessAwait

\* A session in both directions, until it is closed and its workers exit.
SpecClose == InitWrite /\ [][NextClose]_vars
\* Both workers keep running: a select with several cases ready takes each
\* of them sooner or later, so the case <-s.ctx.Done() is not passed over
\* for ever; and the reaper keeps receiving from quitCh.
FairnessClose ==
    /\ \A o \in Objs : SF_vars(RWDone(o))
    /\ \A o \in Objs : WF_vars(RWSendAck(o) \/ RWAckStore(o))
    /\ \A o \in Objs : WF_vars(reapSessions(o))
    /\ \A o \in Objs : SF_vars(WWDone(o))
    /\ \A o \in Objs : WF_vars(WWUpdate(o))
FairClose == SpecClose /\ FairnessClose

TypeOK ==
    /\ made \in 0..MaxObjs
    /\ \A o \in Objs : ctx[o] \in {"none", "live", "done"}
    /\ \A o \in Objs : Len(receiveCh[o]) <= receiveChCap
    /\ \A o \in Objs : readCh[o] \in 0..readChCap
    /\ Len(acceptCh) <= acceptChCap

(***************************************************************************)
(* Properties.                                                             *)
(***************************************************************************)
\* o has been constructed.
Constructed(o) == ctx[o] # "none"
\* The session table maps o's key to o.
StoredAs(o) ==
    /\ Constructed(o)
    /\ Loaded(sessionStore, Key(o))
    /\ sessionStore[Key(o)] = o

\* C1: whatever frames of the peer's stream arrive, in whatever order and
\* however often, the bytes Session.Read has returned so far are a prefix of
\* the bytes the peer has written: none twice, out of order, skipped or
\* altered.
C1_ReadIsPrefix ==
    \A o \in Objs :
        Constructed(o) =>
            /\ IsPrefix(delivered[o], PeerSlice(readBase[o], peerLen[Key(o)]))
            /\ Len(delivered[o]) = readIndex[o] - readBase[o]

\* All the peer's bytes, escapes among them, have been read, after the read
\* worker refused a stale or early frame.
C1_Witness ==
    \E o \in Objs :
        /\ Constructed(o)
        /\ readBase[o] = 0
        /\ rerr[o]
        /\ Len(delivered[o]) = MaxPeerLen
        /\ delivered[o] = PeerSlice(0, peerLen[Key(o)])

\* The session is open and accepted, its inactivity timer has not fired,
\* and its peer has written bytes that Read has not returned.
Unread(o) ==
    /\ ctx[o] = "live"
    /\ rpc[o] \notin {"quit", "exit"}
    /\ ~timeoutTimer[o]
    /\ accepted[o]
    /\ readIndex[o] < peerLen[Key(o)]

\* C2: while the session stays open, with frames that are sent again and
\* again delivered and a receiver that keeps calling Read, the receiver
\* eventually has read all the bytes the peer has written.
C2_EventuallyReadAll == \A o \in Objs : []<>(~Unread(o))

\* C3: every ack the read worker emits for a data frame carries the length
\* of readBuffer at that moment; readBuffer only ever grows at its end, so
\* the bytes below an ack'd length stay as they are; an ack is only ever
\* emitted by a read worker for a frame it took from receiveCh, so a step
\* in which the listener drops a frame, receiveCh being full, emits none.
C3_AckCarriesLength ==
    [][/\ \A o \in Objs :
            /\ RWSendAck(o) => out' = <<sendAck(o, RecvLen(o))>>
            /\ IsPrefix(readBuffer[o], readBuffer'[o])
            /\ readBase'[o] = readBase[o]
       /\ (\E i \in 1..Len(out') : out'[i].msg.Type = "ack") =>
              \E o \in Objs : rpc[o] = "sendAck" /\ rpc'[o] = "select"
       /\ (\A o \in Objs : Len(receiveCh[o]) >= receiveChCap
                             /\ receiveCh'[o] = receiveCh[o]
                             /\ rpc'[o] = rpc[o]) =>
              \A i \in 1..Len(out') : out'[i].msg.Type # "ack"
      ]_vars

\* The read worker has just acknowledged appended bytes with their length.
C3_Witness ==
    \E o \in Objs :
        /\ ctx[o] = "live"
        /\ ~rerr[o]
        /\ Len(readBuffer[o]) >= 2
        /\ out = <<sendAck(o, RecvLen(o))>>

\* C4: the read worker of an open session appends a data frame's bytes
\* exactly when its pos is len(readBuffer); a stale or early frame leaves
\* readBuffer and readIndex alone; in each case the ack it then sends
\* carries the resulting length.
C4_AppendIffInOrder ==
    [][\A o \in Objs :
          (RWData(o) /\ ctx[o] = "live") =>
              /\ readBuffer'[o] =
                    IF Head(receiveCh[o]).Pos = RecvLen(o)
                    THEN readBuffer[o] \o Head(receiveCh[o]).Data
                    ELSE readBuffer[o]
              /\ readIndex' = readIndex
              /\ rn'[o] = readBase[o] + Len(readBuffer'[o])
      ]_vars

\* A data frame a step has put on the wire for o's write worker.
Emitted(o) ==
    /\ wpc[o] = "sent"
    /\ out # <<>>
    /\ out[1].msg.Type = "data"

\* After a tick, with bytes sent and not acknowledged.
TickedUnacked(o) ==
    /\ ctx[o] = "live"
    /\ wpc[o] = "select"
    /\ writeIndex[o] = lastAck[o]
    /\ lastAck[o] < maxAckable[o]

\* C5: a tick sets writeIndex to lastAck; every data frame then carries, at
\* its pos, the bytes writeBuffer holds from writeIndex on, as many as pack
\* fits, in at most maxMessageSize bytes, and writeIndex moves past exactly
\* those; and while bytes are unacknowledged after a tick, a frame starting
\* at or below lastAck is emitted.
C5_TickRetransmits ==
    /\ [][\A o \in Objs :
             /\ WWTick(o) => writeIndex'[o] = lastAck[o]
             /\ WWSend(o) =>
                  /\ out' = <<Sent(Addr[o], tryWriteMsg(o).msg)>>
                  /\ out'[1].msg.Pos = writeIndex[o]
                  /\ packedN'[o] >= 1
                  /\ parseData(out'[1].msg.Data).data =
                        SubSeq(writeBuffer[o], writeIndex[o] + 1,
                               writeIndex[o] + packedN'[o])
                  /\ EncodedLen(out'[1].msg) <= maxMessageSize
             /\ WWUpdate(o) => writeIndex'[o] = writeIndex[o] + packedN[o]
         ]_vars
    /\ \A o \in Objs :
          TickedUnacked(o) ~>
              \/ ctx[o] = "done"
              \/ lastAck[o] >= maxAckable[o]
              \/ (wpc[o] = "sent" /\ writeIndex[o] <= lastAck[o])

\* The write worker sends again, from lastAck, bytes it has sent before.
C5_Witness ==
    \E o \in Objs :
        /\ Emitted(o)
        /\ maxAckable[o] = MaxWriteLen
        /\ lastAck[o] >= 1
        /\ out[1].msg.Pos = lastAck[o]

\* C6: no data frame the write worker emits starts below the value lastAck
\* has when it is emitted.
C6_NeverResendsAcked ==
    \A o \in Objs : Emitted(o) => out[1].msg.Pos >= lastAck[o]

\* C7: an ack whose length exceeds maxAckable leaves lastAck alone, sends a
\* close frame to the peer and closes the session, and the reaper then
\* takes the session out of the session table.
C7_AckBeyondMaxCloses ==
    /\ [][\A o \in Objs :
             (RWAck(o) /\ Head(receiveCh[o]).Length > maxAckable[o]) =>
                 /\ lastAck' = lastAck
                 /\ out' = <<sendClose(ID[o], Addr[o])>>
                 /\ ctx'[o] = "done"
                 /\ rpc'[o] = "quit"
         ]_vars
    /\ [][\A o \in Objs : rpc[o] \in {"quit", "exit"} => lastAck'[o] = lastAck[o]
         ]_vars
    /\ \A o \in Objs : (rpc[o] = "quit") ~> ~StoredAs(o)

\* The reaper has removed a session that an ack beyond the bytes it had
\* sent closed.
C7_Witness ==
    \E o \in Objs :
        /\ rpc[o] = "exit"
        /\ ~timeoutTimer[o]
        /\ ~StoredAs(o)
        /\ maxAckable[o] >= 1
        /\ lastAck[o] < maxAckable[o]
        /\ out = <<sendClose(ID[o], Addr[o])>>

\* C8: lastAck never exceeds maxAckable, however the read worker's check
\* and store interleave with the write worker's sends.
C8_LastAckLeMaxAckable == \A o \in Objs : lastAck[o] <= maxAckable[o]

\* All the bytes sent are acknowledged while the write worker is between
\* its send of more and its update of maxAckable.
C8_Witness ==
    \E o \in Objs :
        /\ lastAck[o] >= 1
        /\ lastAck[o] = maxAckable[o]
        /\ wpc[o] = "sent"

\* C9: lastAck never decreases, and handling an ack leaves it the larger of
\* its old value and the ack's length.
C9_LastAckMonotonic ==
    [][\A o \in Objs :
          /\ lastAck'[o] >= lastAck[o]
          /\ RWAckStore(o) => lastAck'[o] = Max(lastAck[o], rmsg[o].Length)
      ]_vars

\* The read worker is about to handle an ack older than lastAck.
C9_Witness ==
    \E o \in Objs :
        /\ rpc[o] = "ackStore"
        /\ rmsg[o].Length >= 1
        /\ rmsg[o].Length < lastAck[o]

\* The fields of session o outside the listener's hands.
SessionState(o) ==
    <<ctx[o], receiveCh[o], readCh[o], readBuffer[o], readIndex[o],
      lastAck[o], maxAckable[o], writeBuffer[o], writeIndex[o], rpc[o],
      wpc[o], accepted[o], delivered[o]>>

\* C10: a connect for a key with no session, with room in acceptCh, stores
\* one session, queues it once and is answered with ack 0; a connect for a
\* key that has a session leaves the table, acceptCh and that session as
\* they are, is answered with ack 0 again, and the session object made for
\* it is closed at once and reaches neither the table nor acceptCh.
C10_DuplicateConnect ==
    [][\A k \in Keys :
          PeerConnect(k) =>
              IF k \in DOMAIN sessionStore
              THEN /\ sessionStore' = sessionStore
                   /\ acceptCh' = acceptCh
                   /\ SessionState(sessionStore[k])' = SessionState(sessionStore[k])
                   /\ out' = <<Sent(k[1], Msg("ack", k[2], 0, <<>>, 0))>>
                   /\ ctx'[made'] = "done"
                   /\ ~accepted'[made']
              ELSE Len(acceptCh) < acceptChCap =>
                   /\ sessionStore' = Store(sessionStore, k, made')
                   /\ acceptCh' = Append(acceptCh, made')
                   /\ ctx'[made'] = "live"
                   /\ out' = <<Sent(k[1], Msg("ack", k[2], 0, <<>>, 0))>>
      ]_vars

\* A second connect has been answered: the first session is still the one
\* stored, open, with the bytes the application wrote to it; the second
\* object is closed.
C10_Witness ==
    /\ made = 2
    /\ writeBuffer[1] # <<>>
    /\ \E k \in Keys :
          /\ k \in DOMAIN sessionStore
          /\ sessionStore[k] = 1
          /\ Key(2) = k
          /\ out = <<Sent(k[1], Msg("ack", k[2], 0, <<>>, 0))>>
    /\ ctx[1] = "live"
    /\ ctx[2] = "done"
    /\ accepted[1]
    /\ ~accepted[2]

\* A frame of peer k that is not a connect reaches the listener.
PeerFrame(k) ==
    \/ PeerClose(k)
    \/ PeerAck(k, 0)
    \/ PeerData(k, 0, peerLen[k])

\* C11: a data, ack or close frame whose key is not in the session table is
\* answered with one close frame for its session id to its sender, and the
\* session table, the accept queue and every session, its receive channel
\* with the rest, stay as they are; no session object is constructed.
C11_UnknownKeyClose ==
    [][\A k \in Keys2 :
          (~Loaded(sessionStore, keyOf(k[1], k[2])) /\ PeerFrame(k)) =>
              /\ out' = <<sendClose(k[2], k[1])>>
              /\ sessionStore' = sessionStore
              /\ acceptCh' = acceptCh
              /\ made' = made
              /\ receiveCh' = receiveCh
              /\ ctx' = ctx
      ]_vars

\* A peer that never connected has been answered with a close frame, while
\* the session of the other peer is stored, open and has received nothing.
C11_Witness ==
    /\ out = <<sendClose(7, "p2")>>
    /\ \A o \in Objs : Addr[o] # "p2"
    /\ \E o \in Objs :
          /\ StoredAs(o)
          /\ ctx[o] = "live"
          /\ receiveCh[o] = <<>>

\* C12: a close frame for a key in the session table closes the session
\* stored under it, removes the entry and is answered with a close frame
\* for the session id; a data or ack frame that then arrives with the key
\* is answered with a close frame and reaches no session.
C12_PeerCloseRemoves ==
    [][/\ \A k \in Keys2 :
            (Loaded(sessionStore, keyOf(k[1], k[2])) /\ PeerClose(k)) =>
                /\ ctx'[sessionStore[keyOf(k[1], k[2])]] = "done"
                /\ ~Loaded(sessionStore', keyOf(k[1], k[2]))
                /\ out' = <<sendClose(k[2], k[1])>>
       /\ \A o \in Objs : \A k \in Keys2 :
            (/\ Constructed(o)
             /\ Key(o) = keyOf(k[1], k[2])
             /\ ~Loaded(sessionStore, Key(o))
             /\ (PeerAck(k, 0) \/ PeerData(k, 0, peerLen[k]))) =>
                /\ out' = <<sendClose(k[2], k[1])>>
                /\ receiveCh' = receiveCh
                /\ sessionStore' = sessionStore
      ]_vars

\* The peer of an accepted session has closed it: the session is closed,
\* its entry is gone and the close frame has been sent.
C12_Witness ==
    \E o \in Objs :
        /\ accepted[o]
        /\ ctx[o] = "done"
        /\ receiveCh[o] # <<>>
        /\ ~Loaded(sessionStore, Key(o))
        /\ out = <<sendClose(ID[o], Addr[o])>>

\* A datagram from the address of peer k reaches the listener.
PeerDatagram(k) ==
    \/ PeerConnect(k)
    \/ PeerFrame(k)
    \/ \E d \in BadDgrams(k[2]) : PeerGarbage(k, d)

\* C13: a datagram from one address, whatever its type, leaves every
\* session made for another address as it is, with the same session id too:
\* its fields, its receive channel, its entry in the session table and its
\* place in the accept queue; and no datagram is sent to that other address.
C13_KeyedByAddress ==
    [][\A k \in Keys2 : \A o \in Objs :
          (Constructed(o) /\ Addr[o] # k[1] /\ PeerDatagram(k)) =>
              /\ SessionState(o)' = SessionState(o)
              /\ StoredAs(o)' = StoredAs(o)
              /\ \A i \in 1..Len(acceptCh) :
                    acceptCh[i] = o =>
                        (i <= Len(acceptCh') /\ acceptCh'[i] = o)
              /\ \A i \in 1..Len(out') : out'[i].to # Addr[o]
      ]_vars

\* Two peers hold sessions with the same id; one has closed its session and
\* the other's is stored and open, with nothing received.
C13_Witness ==
    \E o1, o2 \in Objs :
        /\ Addr[o1] = "p1"
        /\ Addr[o2] = "p2"
        /\ ID[o1] = ID[o2]
        /\ accepted[o1]
        /\ ~StoredAs(o1)
        /\ ctx[o1] = "done"
        /\ out = <<sendClose(ID[o1], "p1")>>
        /\ StoredAs(o2)
        /\ ctx[o2] = "live"
        /\ receiveCh[o2] = <<>>

\* o was closed by the listener in the step that constructed it and was
\* never handed to the application.
Aborted(o) ==
    /\ ctx[o] = "done"
    /\ ~accepted[o]
    /\ ~StoredAs(o)
    /\ \A i \in 1..Len(acceptCh) : acceptCh[i] # o

C15_AcceptQueueHolds20 ==
    [][\A k \in Keys2 :
          (/\ PeerConnect(k)
           /\ ~Loaded(sessionStore, keyOf(k[1], k[2]))
           /\ Len(acceptCh) < acceptBufferSize) =>
              /\ sessionStore' = Store(sessionStore, keyOf(k[1], k[2]), made')
              /\ acceptCh' = Append(acceptCh, made')
              /\ ctx'[made'] = "live"
              /\ out' = <<Sent(k[1], Msg("ack", k[2], 0, <<>>, 0))>>
      ]_vars

\* C16: a datagram that parseMessage refuses is answered with nothing and
\* leaves the session table, acceptCh and every session as they are: its
\* context, receive channel, read and write buffers, lastAck, maxAckable,
\* its workers and its inactivity timer.
C16_MalformedDropped ==
    [][\A k \in Keys2 : \A d \in BadDgrams(k[2]) :
          PeerGarbage(k, d) =>
              /\ out' = <<>>
              /\ UNCHANGED <<sessionStore, acceptCh, made, ctx, receiveCh,
                             readVars, ackVars, writeVars, rwVars, accepted>>
      ]_vars

\* The listener has dropped a datagram as its last one, while the session
\* holds bytes written and acknowledged and its timer has run out.
C16_Witness ==
    /\ lerr
    /\ out = <<>>
    /\ \E o \in Objs :
          /\ StoredAs(o)
          /\ ctx[o] = "live"
          /\ rpc[o] = "select"
          /\ receiveCh[o] = <<>>
          /\ timeoutTimer[o]
          /\ Len(writeBuffer[o]) = MaxWriteLen
          /\ lastAck[o] >= 1

\* The read worker of o has sent the session's close frame and closed it,
\* on an ack beyond maxAckable, and waits for the reaper: it left its select
\* with the timer reset.
ClosedByWorker(o) ==
    /\ rpc[o] = "quit"
    /\ ~timeoutTimer[o]

\* C17: a session enters Closed once: after its read worker has sent its
\* close frame and closed it, the cleanup that follows sends no second
\* close frame; and a Close by the application on a closed session sends
\* nothing and changes nothing.
C17_CloseOnce ==
    [][\A o \in Objs :
          /\ (ClosedByWorker(o) /\ reapSessions(o)) => out' = <<>>
          /\ (ctx[o] = "done" /\ AppClose(o)) =>
                /\ out' = <<>>
                /\ UNCHANGED <<listenerVars, ctx, receiveCh, readVars,
                               ackVars, writeVars, rwVars, accepted>>
      ]_vars

\* C18: a Close by the application closes the session, sends its close
\* frame and has its entry removed from the session table: once the
\* session is closed and both its workers have returned, the table does not
\* hold it.
C18_LocalCloseCleansUp ==
    \A o \in Objs :
        (ctx[o] = "done" /\ rpc[o] = "exit" /\ wpc[o] = "exit") => ~StoredAs(o)

\* The timer of open session o has run out and its read worker has not yet
\* taken a case of its select.
TimedOut(o) ==
    /\ ctx[o] = "live"
    /\ rpc[o] = "select"
    /\ timeoutTimer[o]

\* C19: when the inactivity timer of an open session runs out, the read
\* worker hands the session to the reaper, which closes it, sends a close
\* frame to its peer and deletes its entry; this comes about unless the
\* read worker takes a frame first, which resets the timer, or the session
\* is closed by its peer or the application first.
C19_TimeoutCloses ==
    /\ [][\A o \in Objs :
             /\ (RWTimeout(o) /\ ctx[o] = "live") =>
                   (rpc'[o] = "quit" /\ out' = <<>>)
             /\ reapSessions(o) =>
                   /\ ctx'[o] = "done"
                   /\ out' = <<sendClose(ID[o], Addr[o])>>
                   /\ ~Loaded(sessionStore', Key(o))
         ]_vars
    /\ \A o \in Objs :
          TimedOut(o) ~>
              \/ ~timeoutTimer[o]
              \/ (ctx[o] = "done" /\ rpc[o] = "select")
              \/ (ctx[o] = "done" /\ rpc[o] = "exit" /\ ~StoredAs(o))

\* The reaper has closed a session whose timer ran out, sent the close
\* frame and deleted the entry, before the write worker noticed.
C19_Witness ==
    \E o \in Objs :
        /\ timeoutTimer[o]
        /\ rpc[o] = "exit"
        /\ wpc[o] = "select"
        /\ ctx[o] = "done"
        /\ ~Loaded(sessionStore, Key(o))
        /\ writeBuffer[o] # <<>>
        /\ out = <<sendClose(ID[o], Addr[o])>>

\* A connect has arrived for stored session o after the listener made it:
\* the listener constructed d for it and closed d at once.
HeardConnect(o, d) ==
    /\ StoredAs(o)
    /\ d > o
    /\ Constructed(d)
    /\ Key(d) = Key(o)

\* C20: every valid frame the listener receives for a session resets its
\* inactivity timer, a connect too: the timer of a session does not run out
\* when a frame for the session has arrived since the timer was started or
\* last reset.  (The peer here sends connects only, so that the timer is
\* never reset by the read worker.)
C20_ConnectResetsTimer ==
    [][\A o, d \in Objs : HeardConnect(o, d) => ~TimerFires(o)]_vars

\* C21: Session.Read returns io.EOF only when the session is closed and
\* readIndex equals len(readBuffer); a Read on a closed session that still
\* has unread bytes returns the next of them, in order, and not io.EOF; a
\* Read woken by readCh never returns io.EOF.
C21_EOFAfterDrain ==
    /\ [](\A o \in Objs :
             eof[o] => (ctx[o] = "done" /\ readIndex[o] = RecvLen(o)))
    /\ [][\A o \in Objs : \A blen \in 1..MaxReadBuf :
             /\ (ReadClosed(o, blen) /\ readIndex[o] < RecvLen(o)) =>
                   /\ ~eof'[o]
                   /\ readIndex'[o] =
                         readIndex[o] + Min(blen, RecvLen(o) - readIndex[o])
                   /\ delivered'[o] =
                         delivered[o] \o
                           SubSeq(readBuffer[o],
                                  readIndex[o] - readBase[o] + 1,
                                  readIndex'[o] - readBase[o])
             /\ (ReadClosed(o, blen) /\ readIndex[o] = RecvLen(o)) =>
                   (eof'[o] /\ delivered' = delivered)
             /\ ReadSignaled(o, blen) => ~eof'[o]
         ]_vars

\* Read has returned io.EOF on a closed session after it returned all the
\* bytes the peer wrote, escapes among them.
C21_Witness ==
    \E o \in Objs :
        /\ eof[o]
        /\ ctx[o] = "done"
        /\ readBase[o] = 0
        /\ delivered[o] = PeerSlice(0, MaxPeerLen)

\* No frame is on its way to o's readBuffer: the read worker waits in its
\* select and receiveCh is empty.
ReadWorkerIdle(o) ==
    /\ rpc[o] = "select"
    /\ receiveCh[o] = <<>>

\* C22: Read blocks only while the session is open and has no unread byte:
\* whenever an open, accepted session has unread bytes and no frame is on
\* its way, a wake-up waits in readCh, so that a Read returns bytes without
\* a further frame.
C22_ReadReturnsUnread ==
    \A o \in Objs :
        (/\ accepted[o]
         /\ ctx[o] = "live"
         /\ readIndex[o] < RecvLen(o)
         /\ ReadWorkerIdle(o)) => readCh[o] > 0

\* C23: Session.Write on a closed session, or with len(writeBuffer) + len(b)
\* >= 2^31 (that is, > maxInt), returns an error and leaves writeBuffer as
\* it is; otherwise it appends b as it is, escapes and all, after the bytes
\* writeBuffer holds, which stay as they are, and returns len(b).
C23_WriteAppends ==
    /\ [][\A o \in Objs : \A n \in 1..MaxWriteLen :
             Write(o, n) =>
                 IF ctx[o] = "done"
                 THEN writeBuffer' = writeBuffer
                 ELSE /\ writeBuffer'[o] =
                            writeBuffer[o] \o
                              [i \in 1..n |-> AppByte(Len(writeBuffer[o]) + i)]
                      /\ \A p \in Objs \ {o} : writeBuffer'[p] = writeBuffer[p]
         ]_vars
    /\ [](call.fn = "Write" =>
             /\ ret.err <=> (call.closed \/ call.blen > maxInt - call.len)
             /\ ret.append <=> ~ret.err
             /\ ~ret.err => ret.n = call.blen)

\* Write has appended an escape and another byte to a session that was
\* closed afterwards, and Write by itself has accepted a total of exactly
\* maxInt bytes.
C23_Witness ==
    /\ \E o \in Objs : writeBuffer[o] = <<SLASH, "x">> /\ ctx[o] = "done"
    /\ call.fn = "Write"
    /\ ~call.closed
    /\ call.len = maxInt - 2
    /\ call.blen = 2
    /\ ~ret.err

C25_GetClientIdReturns == InGetClientId ~> ~InGetClientId

\* The read worker of o is about to take the frame /data/../pos/data/.
Takes(o, pos, data) ==
    /\ rpc[o] = "select"
    /\ receiveCh[o] # <<>>
    /\ Head(receiveCh[o]) = Msg("data", ID[o], pos, data, 0)

\* Fresh session o has refused a frame and acknowledged length 0: xyz came
\* first.
XyzCameFirst(o) ==
    /\ RecvLen(o) = 0
    /\ rerr[o]

\* C26 as the spec words it: after xyz was answered with ack 0, the frame
\* abc is answered with ack 6.
C26_SecondFrameAcks6 ==
    [][\A o \in Objs :
          (XyzCameFirst(o) /\ Takes(o, 0, abc) /\ RWData(o)) => rn'[o] = 6
      ]_vars

\* C26: on fresh session 1, the frame xyz at pos 3 leaves readBuffer empty
\* and is answered with ack 0; the frame abc at pos 0 that follows is
\* appended and answered with ack 3; xyz sent again is then appended and
\* answered with ack 6; and what the application reads is a prefix of
\* abcxyz.
C26_Reordering ==
    /\ [][\A o \in Objs :
             /\ (RecvLen(o) = 0 /\ Takes(o, 3, xyz) /\ RWData(o)) =>
                   (readBuffer'[o] = <<>> /\ rn'[o] = 0)
             /\ (XyzCameFirst(o) /\ Takes(o, 0, abc) /\ RWData(o)) =>
                   (readBuffer'[o] = abc /\ rn'[o] = 3)
             /\ (RecvLen(o) = 3 /\ Takes(o, 3, xyz) /\ RWData(o)) =>
                   (readBuffer'[o] = abc \o xyz /\ rn'[o] = 6)
             /\ RWSendAck(o) => out' = <<sendAck(o, rn[o])>>
         ]_vars
    /\ [](\A o \in Objs : IsPrefix(delivered[o], abc \o xyz))

\* After xyz was refused, abc appended and xyz appended, ack 6 has been sent
\* and the application has read abcxyz.
C26_Witness ==
    \E o \in Objs :
        /\ ID[o] = 1
        /\ delivered[o] = abc \o xyz
        /\ out = <<sendAck(o, 6)>>

(***************************************************************************)
(* The codec's contracts.                                                  *)
(***************************************************************************)
\* What one source byte becomes in a frame: itself, or itself behind '\'.
EscapeByte(c) == IF IsSlash(c) THEN <<BACKSLASH, c>> ELSE <<c>>
RECURSIVE EscapeRange(_, _, _)
\* The escaped form of the bytes lo..hi of data, by halves.
EscapeRange(data, lo, hi) ==
    IF lo > hi THEN <<>>
    ELSE IF lo = hi THEN EscapeByte(data[lo])
    ELSE LET mid == (lo + hi) \div 2
         IN EscapeRange(data, lo, mid) \o EscapeRange(data, mid + 1, hi)
\* The escaped form of the first n bytes of data.
Escape(data, n) == EscapeRange(data, 1, n)
\* pack has been called and has returned.
PackReturned == call.fn = "pack" /\ ret # NoRet
\* len of the encoded frame /data/<session>/<pos>/<Data>/ of the last pack.
PackedFrameLen ==
    9 + DigitLen(call.session) + DigitLen(call.pos) + Len(ret.Data)

\* C27: for every session id, pos and source bytes, pack returns n and sets
\* Data to the escaped form of exactly the first n source bytes; the encoded
\* frame is at most 999 bytes long; and n is maximal: it is the length of the
\* source, or the escaped form of source byte n would not fit any more.
C27_PackFillsFrame ==
    PackReturned =>
        /\ ret.n \in 0..Len(call.data)
        /\ ret.Data = Escape(call.data, ret.n)
        /\ PackedFrameLen <= maxMessageSize
        /\ \/ ret.n = Len(call.data)
           \/ PackedFrameLen + Len(EscapeByte(call.data[ret.n + 1]))
                 > maxMessageSize
\* pack has left out a '/' or '\' for which one byte of room remained, with
\* source bytes after it.
C27_Witness ==
    /\ PackReturned
    /\ ret.n + 1 < Len(call.data)
    /\ IsSlash(call.data[ret.n + 1])
    /\ PackedFrameLen = maxMessageSize - 1

\* The last pack took the whole of its source: the source fits in one frame.
PackedWhole == PackReturned /\ ret.n = Len(call.data)

\* C28: escape round trip.  For every byte string b that fits in one frame,
\* the empty string and strings of only '/' and '\' among them, parseData of
\* the escaped bytes pack produces for b succeeds and yields exactly b.
C28_EscapeRoundTrip ==
    PackedWhole =>
        LET pd == parseData(ret.Data)
        IN pd.ok /\ pd.data = call.data
\* pack has escaped a whole source made only of '/' and '\', a long run of
\* them.
C28_Witness ==
    /\ PackedWhole
    /\ Len(call.data) > MaxTailLen
    /\ \A i \in 1..Len(call.data) : IsSlash(call.data[i])

\* encode has been called on a valid frame of one of the four types that
\* fits the size budget: pack has taken all of its bytes.
EncodedValid ==
    /\ call.fn = "encode"
    /\ call.msg.Type \in Types
    /\ Validate(call.msg)
    /\ call.n = Len(call.data)

\* C29: encode/parse round trip.  For every valid Connect, Data, Ack and
\* Close frame that fits the size budget, with '/' and '\' among the bytes
\* of a Data frame, encode succeeds with at most 999 bytes, and parseMessage
\* of them succeeds and returns the frame's type, session, pos, bytes and
\* length.
C29_EncodeParseRoundTrip ==
    EncodedValid =>
        /\ ~ret.err
        /\ Len(ret.bs) <= maxMessageSize
        /\ LET r == parseMessageBytes(ret.bs)
           IN /\ r.ok
              /\ r.msg = [call.msg EXCEPT !.Data = call.data]
\* A Data frame of 999 bytes whose bytes are '/' (and an ordinary byte at
\* the end) has been encoded.
C29_Witness ==
    /\ EncodedValid
    /\ call.msg.Type = "data"
    /\ Len(ret.bs) = maxMessageSize
    /\ \E i \in 1..Len(call.data) : IsSlash(call.data[i])

\* bs is a non-empty string of decimal digits.
IsUnsignedField(bs) == bs # <<>> /\ \A i \in 1..Len(bs) : IsDigit(bs[i])

\* C30: the parser accepts a numeric field only if it is a non-empty string
\* of decimal digits with a value below 2^31; an empty field, a leading '+'
\* or '-', a non-digit and a value of 2^31 or more make the parse fail, and
\* no frame with a negative session, pos or length is produced.
C30_NumericFieldsUnsigned ==
    /\ (call.fn = "parseInt" /\ ~ret.err) =>
          /\ IsUnsignedField(call.bs)
          /\ ret.val \in 0..maxInt
    /\ (call.fn = "parseMessage" /\ ~ret.err) =>
          /\ ret.msg.Session >= 0
          /\ ret.msg.Pos >= 0
          /\ ret.msg.Length >= 0

\* The count of '\' directly before index i of bs.
RECURSIVE BackslashesBefore(_, _)
BackslashesBefore(bs, i) ==
    IF i > 1 /\ bs[i - 1] = BACKSLASH THEN 1 + BackslashesBefore(bs, i - 1)
    ELSE 0
\* The byte at index i follows an unescaped '\': the '\' before it are odd
\* in number.
IsEscapedAt(bs, i) == BackslashesBefore(bs, i) % 2 = 1
\* The indexes of bs with an unescaped '/', and those with an unescaped '\'
\* that no '/' or '\' follows.
UnescapedSlashes(bs) ==
    {i \in 1..Len(bs) : bs[i] = SLASH /\ ~IsEscapedAt(bs, i)}
StrayBackslashes(bs) ==
    {i \in 1..Len(bs) : /\ bs[i] = BACKSLASH
                        /\ ~IsEscapedAt(bs, i)
                        /\ (i = Len(bs) \/ ~IsSlash(bs[i + 1]))}
\* The least of a non-empty set of indexes.
First(S) == CHOOSE i \in S : \A j \in S : i <= j
\* bs splits: it has an unescaped '/' with no stray '\' before it.
Splits(bs) ==
    /\ UnescapedSlashes(bs) # {}
    /\ \A i \in StrayBackslashes(bs) : i > First(UnescapedSlashes(bs))
\* The bytes given to parseMessage after the header head.
AfterHead(head) == SubSeq(call.bs, Len(head) + 1, Len(call.bs))
StartsWith(head) ==
    Len(call.bs) >= Len(head) /\ SubSeq(call.bs, 1, Len(head)) = head

\* C31: parseField ends a field at the first '/' that does not directly
\* follow an unescaped '\' (after '\\' a '/' is not escaped) and returns the
\* bytes before and after it; it fails on a '\' that no '/' or '\' follows
\* and on a field without a terminating '/'.  parseMessage fails when bytes
\* follow the frame's final '/', an unescaped '/' inside the data among them.
C31_FieldSplitting ==
    /\ call.fn = "parseField" =>
          /\ ~ret.err <=> Splits(call.bs)
          /\ ~ret.err =>
                LET e == First(UnescapedSlashes(call.bs))
                IN /\ ret.field = SubSeq(call.bs, 1, e - 1)
                   /\ ret.rest = SubSeq(call.bs, e + 1, Len(call.bs))
    /\ (call.fn = "parseMessage" /\ StartsWith(DataHead)) =>
          LET t == AfterHead(DataHead)
          IN ~ret.err <=> /\ Splits(t)
                          /\ First(UnescapedSlashes(t)) = Len(t)
    /\ (call.fn = "parseMessage" /\ StartsWith(ConnectHead)) =>
          (~ret.err <=> AfterHead(ConnectHead) = <<>>)
\* parseField has ended a field at a '/' that follows an escaped '\', with
\* bytes left after it.
C31_Witness ==
    /\ call.fn = "parseField"
    /\ ~ret.err
    /\ ret.field = <<BACKSLASH, BACKSLASH>>
    /\ ret.rest # <<>>

\* C32: a datagram of 1000 bytes or more is never accepted as a frame: the
\* listener answers nothing and changes nothing, also when the first 999
\* bytes are a well-formed frame.
C32_LongDatagramDropped ==
    [][\A k \in Keys2 : \A bs \in LongDgrams(k[2]) :
          PeerBytes(k, bs) =>
              /\ out' = <<>>
              /\ UNCHANGED <<sessionStore, acceptCh, made, ctx, receiveCh,
                             readVars, ackVars, writeVars, rwVars, accepted>>
      ]_vars

\* C33: no worker holds a session mutex while a datagram is being sent: the
\* write worker has released writeLock when it emits a data frame, so that
\* a Write of the application does not wait for the send.
C33_NoLockAcrossSend ==
    [][\A o \in Objs : WWSend(o) => ~writeLock(o)']_vars

\* The highest stream offset in a data frame the session has emitted: what
\* maxAckable has been raised to, and the end of the frame tryWrite has just
\* sent.
Transmitted(o) ==
    IF wpc[o] = "sent" THEN Max(maxAckable[o], writeIndex[o] + packedN[o])
    ELSE maxAckable[o]

\* C34: when the read worker takes an ack, maxAckable is at least the highest
\* offset in any data frame already emitted, however the write worker's send
\* and update interleave with it; so an ack of no more than the bytes
\* transmitted does not close the session.
C34_AckOfSentBytesLegal ==
    [][\A o \in Objs :
          RWAck(o) =>
              /\ maxAckable[o] >= Transmitted(o)
              /\ Head(receiveCh[o]).Length <= Transmitted(o) => ctx'[o] = ctx[o]
      ]_vars

\* C35: an entry leaves the session table only by the removal of the session
\* it holds: whenever a key stops being stored, or comes to hold another
\* session, the session it held is closed; so no teardown of an older
\* session deletes a newer open one, and every open, accepted session stays
\* stored under its key.
C35_RemovesOnlyItself ==
    /\ [][\A k \in Keys :
             (Loaded(sessionStore, k) /\ ~Loaded(sessionStore', k))
                => ctx'[sessionStore[k]] = "done"
         ]_vars
    /\ [](\A o \in Objs : (ctx[o] = "live" /\ accepted[o]) => StoredAs(o))

\* The session was closed by the application's Close and by nothing else:
\* the listener still holds it and its read worker has not left its loop.
ClosedByClose(o) ==
    /\ ctx[o] = "done"
    /\ StoredAs(o)
    /\ rpc[o] \notin {"quit", "exit"}

\* C36: Close comes after the writes that returned before it: when the
\* write worker of a session closed by Close has stopped, every byte the
\* application's writes appended has been sent in a data message.
C36_CloseFlushesWrites ==
    \A o \in Objs :
        (ClosedByClose(o) /\ wpc[o] = "exit")
            => Transmitted(o) >= Len(writeBuffer[o])

\* C37: a data message the read worker takes from receiveCh once the
\* session is closed is dropped: readBuffer stays as it is and the worker
\* returns to its select without going on to send an ack.
C37_ClosedDataNoAck ==
    [][\A o \in Objs :
          (RWData(o) /\ ctx[o] = "done")
             => /\ readBuffer'[o] = readBuffer[o]
                /\ rpc'[o] # "sendAck"
      ]_vars

C39_SizeLimitOnEnd ==
    [][\A o \in Objs :
          (RWData(o) /\ ctx[o] = "live" /\ Head(receiveCh[o]).Pos = RecvLen(o))
             => IF Len(Head(receiveCh[o]).Data) > maxInt - Head(receiveCh[o]).Pos
                THEN readBuffer'[o] = readBuffer[o] /\ ctx'[o] = "done"
                ELSE readBuffer'[o] = readBuffer[o] \o Head(receiveCh[o]).Data
      ]_vars

\* A data message of session o among the datagrams msgs.
DataOf(o, msgs) ==
    \E j \in 1..Len(msgs) :
        /\ msgs[j].to = Addr[o]
        /\ msgs[j].msg.Type = "data"
        /\ msgs[j].msg.Session = ID[o]

====
